---------------------------- MODULE Spec2Model ----------------------------
(***************************************************************************)
(* A model of the plan runner, of feature-gate resolution and sync, of      *)
(* storage backend enabling, of node roles, of the retried Terraform       *)
(* apply, of the background status worker, of the OVN provider step and    *)
(* of the feature and storage managers of snap-openstack (sunbeam-python). *)
(*                                                                         *)
(*   SpecPlan  sunbeam/core/common.py     run_plan, one action per call    *)
(*             that run_plan makes on a step (has_prompts, prompt,         *)
(*             is_skip, run), with the branch that follows the call.       *)
(*   SpecGate  sunbeam/feature_gates.py   FeatureGateMixin.check_gated     *)
(*             over a cluster database and a local snap configuration      *)
(*             that change between resolutions.                            *)
(*   SpecEntry    feature_gates.py   check_gated and                       *)
(*             is_feature_gate_enabled over the same sources.              *)
(*   SpecStorage  storage/base.py    enable_backend and check_enabled.     *)
(*   SpecRole  core/common.py, provider/local/commands.py   validate_roles *)
(*             and the role checks of bootstrap and join.                  *)
(*   SpecKey   feature_gates.py      construction of a capability and      *)
(*             requests of its gate_key.                                   *)
(*   SpecRetry steps/microovn.py     ReapplyMicroOVNTerraformPlanStep.run  *)
(*             under tenacity.retry, one action per attempt.               *)
(*   SpecStatus  core/common.py      _UpdateStatusThread, its producer and *)
(*             the stop signal, interleaved.                               *)
(*   SpecSync  hooks.py              sync_feature_gates_from_snap_to_      *)
(*             cluster, one action per run.                                *)
(*   SpecSyncCallers  hooks.py, steps/sync_feature_gates.py   the sync     *)
(*             run by the configure hook and by the plan step.             *)
(*   SpecOvn   steps/microovn.py     SetOvnProviderStep under run_plan.    *)
(*   SpecStatusLive  core/common.py  the same worker under a fair          *)
(*             scheduler, with a bounded producer.                         *)
(*   SpecDiscovery  storage/manager.py, feature_manager.py   discovery of  *)
(*             backends, features and groups by several managers.          *)
(*   SpecRegister  feature_manager.py, storage/manager.py   command        *)
(*             registration filtered by risk and by gate.                  *)
(*   SpecUpdate  feature_manager.py   update_features, one action per run. *)
(*   SpecEnable  storage/base.py     enable_backend called in sequence.    *)
(*   SpecEnableRace  storage/base.py  two enable_backend calls whose read  *)
(*             and write interleave.                                       *)
(***************************************************************************)
EXTENDS Integers, Sequences, FiniteSets, TLC

VARIABLES
    \* ---- run_plan (core/common.py) ----
    plan,       \* the plan argument: a sequence of step class names
    no_hint,    \* run_plan's no_hint argument
    no_raise,   \* run_plan's no_raise argument
    idx,        \* position of the for loop in the plan (0: before the first step)
    pc,         \* where run_plan stands
    results,    \* the results dict: class name -> Result
    live,       \* whether the console status display is running
    exc,        \* the exception that left run_plan, if any
    calls,      \* every call made on a step so far, in order (the mock's call list)
    \* ---- feature gates (feature_gates.py) ----
    snapConfig,     \* local snap configuration: gate key -> value or Unset
    dbGates,        \* cluster database feature-gate records: gate key -> record state
    dbEnabledList,  \* cluster config item holding the enabled-capability list
    clusterUp,      \* whether the cluster service answers
    fault,          \* the source call that fails with an exception of another class
    lastCheck,      \* the last check_gated invocation: its arguments, calls and outcome
    lastGate,       \* the last is_feature_gate_enabled invocation: its key and outcome
    \* ---- storage backends (storage/base.py) ----
    lastEnable,     \* the last enable_backend invocation: its backend and outcome
    lastEnabled,    \* the last check_enabled invocation: its arguments and outcome
    \* ---- roles (core/common.py, provider/local/commands.py) ----
    rvalue,     \* the values of the --role option: a tuple of comma-separated strings
    rsnap,      \* local snap configuration value of feature.multi-region, or Unset
    rpc,        \* where the command stands
    rroles,     \* the roles list: how many times it holds each Role
    rerr,       \* the error the command ended with, if any
    rcmd,       \* the command: bootstrap or join
    \* ---- a capability and its gate key (feature_gates.py) ----
    kcap,       \* the attributes the capability's class declares
    kpc,        \* whether the capability object has been constructed
    kret,       \* what the last request of gate_key returned or raised
    krequests,  \* how many times gate_key has been requested
    \* ---- ReapplyMicroOVNTerraformPlanStep.run under tenacity.retry (steps/microovn.py) ----
    tlockSub,   \* whether TerraformStateLockedException derives from TerraformException
    tlockId,    \* the lock ID in the text of the adapter's lock error, or "none"
    tpc,        \* where the retrying call stands
    telapsed,   \* seconds since the first attempt started
    tattempts,  \* the attempts so far: start, end, what apply and the wait did
    tresult,    \* the Result the call returned, or the exception it raised
    \* ---- _UpdateStatusThread (core/common.py) ----
    uapps,      \* the applications argument
    ustatus,    \* whether a status display is attached (status is not None)
    uqueue,     \* the queue of (status, application) events
    ustop,      \* the stop event
    upc,        \* where the worker stands
    ucount,     \* the apps dict of run: application -> counter
    unb,        \* nb_active_apps of run
    udisplay,   \* what the status display was last updated with
    uproduced,  \* how many events the producer has enqueued
    uprod,      \* where the producer stands
    urecent,    \* per application, its last reports counted by the worker
    upat,       \* how far the reports of one application follow a given sequence
    uafter,     \* whether the display was written after the stop was signalled
    utaken,     \* events the worker took from the queue
    uacked,     \* task_done calls of the worker
    \* ---- sync of the feature gates (hooks.py, steps/sync_feature_gates.py) ----
    slocal,     \* the local snap settings under 'feature'
    sbare,      \* whether as_dict() yields the settings without the 'feature' key
    sdb,        \* the gate records of the cluster database: gate key -> state
    slast,      \* the last run of the sync since the local settings changed
    sclean,     \* whether the last run since the local settings changed met no failure
    \* ---- SetOvnProviderStep (steps/microovn.py) ----
    oprovider,  \* the provider stored in the deployment configuration, or None
    oboot,      \* whether the cluster is bootstrapped
    ogate,      \* local snap configuration value of feature.microovn-sdn, or Unset
    osnap,      \* local snap configuration value of ovn.provider, or Unset
    owanted,    \* wanted_provider of the step
    opc,        \* where run_plan stands with the step
    oskip,      \* the call of is_skip on the step: what it saw and returned
    oran,       \* the result type run returned, if run_plan called it
    oatboot,    \* the stored provider when the cluster became bootstrapped
    \* ---- capability discovery ----
    dfound,     \* backend directories the scan finds
    dbackends,  \* StorageBackendManager._backends: instance per backend type
    dloaded,    \* self._loaded as each manager reads it, - before construction
    dscans,     \* scans of the backends directory
    dcreated,   \* backend instances made
    dfirst,     \* the first instance cached per backend type
    dret,       \* outcome of the last manager call
    ffound,     \* feature classes the scan registers
    gfound,     \* feature group classes the scan registers
    ffeatures,  \* FeatureManager._features: instance per feature
    fgroups,    \* FeatureManager._groups: instance per group
    fmanagers,  \* FeatureManager constructions
    fscans,     \* scans of the features directory
    fcreated,   \* feature and group instances made
    ffirst,     \* the first instance cached per feature
    \* ---- registration of capabilities ----
    regEnv,     \* the sources as a registration finds them
    regLast,    \* what the registration did with the capability
    \* ---- update_features ----
    vfeatures,  \* the features: enabled, version, persisted version, hook
    vcalls,     \* the upgrade hook calls update_features made
    vdone,      \* update_features has run
    \* ---- enable_backend, repeated and concurrent ----
    elist,      \* the StorageBackendsEnabled config item of the cluster
    eup,        \* the cluster service answers
    ecalls,     \* the finished enable_backend calls of the one process
    epc,        \* where each concurrent invocation is: start, read, done, raised
    elocal      \* enabled_backends of each concurrent invocation

planVars == <<plan, no_hint, no_raise, idx, pc, results, live, exc, calls>>
gateVars == <<snapConfig, dbGates, dbEnabledList, clusterUp, fault, lastCheck, lastGate>>
storageVars == <<lastEnable, lastEnabled>>
vars == <<plan, no_hint, no_raise, idx, pc, results, live, exc, calls,
          snapConfig, dbGates, dbEnabledList, clusterUp, fault, lastCheck, lastGate,
          lastEnable, lastEnabled,
          rvalue, rsnap, rpc, rroles, rerr, rcmd,
          kcap, kpc, kret, krequests,
          tlockSub, tlockId, tpc, telapsed, tattempts, tresult,
          uapps, ustatus, uqueue, ustop, upc, ucount, unb, udisplay, uproduced, uprod, urecent, upat, uafter, utaken, uacked,
          slocal, sbare, sdb, slast, sclean,
          oprovider, oboot, ogate, osnap, owanted, opc, oskip, oran, oatboot,
          dfound, dbackends, dloaded, dscans, dcreated, dfirst, dret, ffound, gfound, ffeatures, fgroups, fmanagers, fscans, fcreated, ffirst,
          regEnv, regLast,
          vfeatures, vcalls, vdone,
          elist, eup, ecalls, epc, elocal>>
enableVars == <<elist, eup, ecalls, epc, elocal>>
updateVars == <<vfeatures, vcalls, vdone>>
registerVars == <<regEnv, regLast>>
discoveryVars == <<dfound, dbackends, dloaded, dscans, dcreated, dfirst, dret, ffound, gfound, ffeatures, fgroups, fmanagers, fscans, fcreated, ffirst>>
ovnVars == <<oprovider, oboot, ogate, osnap, owanted, opc, oskip, oran, oatboot>>
syncVars == <<slocal, sbare, sdb, slast, sclean>>
statusVars == <<uapps, ustatus, uqueue, ustop, upc, ucount, unb, udisplay, uproduced, uprod, urecent, upat, uafter,
               utaken, uacked>>
retryVars == <<tlockSub, tlockId, tpc, telapsed, tattempts, tresult>>
roleVars == <<rvalue, rsnap, rpc, rroles, rerr, rcmd>>
keyVars == <<kcap, kpc, kret, krequests>>

\* What run_plan leaves alone, what gate resolution leaves alone, and so on.
nonPlanVars == <<gateVars, storageVars, roleVars, keyVars, retryVars, statusVars, syncVars, ovnVars, discoveryVars, registerVars, updateVars, enableVars>>
nonGateVars == <<planVars, storageVars, roleVars, keyVars, retryVars, statusVars, syncVars, ovnVars, discoveryVars, registerVars, updateVars, enableVars>>
nonStorageVars == <<planVars, roleVars, keyVars, retryVars, statusVars, syncVars, ovnVars, discoveryVars, registerVars, updateVars, enableVars>>
nonRoleVars == <<planVars, gateVars, storageVars, keyVars, retryVars, statusVars, syncVars, ovnVars, discoveryVars, registerVars, updateVars, enableVars>>
nonKeyVars == <<planVars, gateVars, storageVars, roleVars, retryVars, statusVars, syncVars, ovnVars, discoveryVars, registerVars, updateVars, enableVars>>
nonRetryVars == <<planVars, gateVars, storageVars, roleVars, keyVars, statusVars, syncVars, ovnVars, discoveryVars, registerVars, updateVars, enableVars>>
nonStatusVars == <<planVars, gateVars, storageVars, roleVars, keyVars, retryVars, syncVars, ovnVars, discoveryVars, registerVars, updateVars, enableVars>>
nonSyncVars == <<planVars, gateVars, storageVars, roleVars, keyVars, retryVars, statusVars, ovnVars, discoveryVars, registerVars, updateVars, enableVars>>
nonOvnVars == <<planVars, gateVars, storageVars, roleVars, keyVars, retryVars, statusVars, syncVars, discoveryVars, registerVars, updateVars, enableVars>>
nonDiscoveryVars == <<planVars, gateVars, storageVars, roleVars, keyVars, retryVars, statusVars, syncVars, ovnVars, registerVars, updateVars, enableVars>>
nonRegisterVars == <<planVars, gateVars, storageVars, roleVars, keyVars, retryVars, statusVars, syncVars, ovnVars, discoveryVars, updateVars, enableVars>>
nonUpdateVars == <<planVars, gateVars, storageVars, roleVars, keyVars, retryVars, statusVars, syncVars, ovnVars, discoveryVars, registerVars, enableVars>>
nonEnableVars == <<planVars, gateVars, storageVars, roleVars, keyVars, retryVars, statusVars, syncVars, ovnVars, discoveryVars, registerVars, updateVars>>

(***************************************************************************)
(* Bounds                                                                  *)
(***************************************************************************)
\* Longest plan handed to run_plan.
MaxPlan == 3

\* Most role names in one value of the --role option.
MaxRolesPerOption == 2

\* Most requests of the gate key of one capability object.
MaxKeyRequests == 2

\* How many readiness events the producer emits at most.
MaxEvents == 8

\* The capacity of the queue between the producer and the status worker.
QueueMax == 1

(***************************************************************************)
(* Result / ResultType                                                     *)
(***************************************************************************)
ResultType == {"COMPLETED", "FAILED", "SKIPPED"}

\* Result(result_type, message)
Result(rt, msg) == [result_type |-> rt, message |-> msg]

\* A step method that raises instead of returning a Result.
Raises == "RAISES"

\* The class names of the steps a plan is made of (step.__class__.__name__).
StepNames == {"StepA", "StepB"}

\* The message payload of the Result that step i's method returns: every call
\* returns its own payload, so that a recorded Result names the call it is from.
Message(i, method) == <<i, method>>

NoMessage == <<0, "">>

\* A dict with no entry.
EmptyDict == [k \in {} |-> NoMessage]

\* d[k] = v on a dict.
DictSet(d, k, v) == [x \in (DOMAIN d) \cup {k} |-> IF x = k THEN v ELSE d[x]]


BoolStr(b) == IF b THEN "True" ELSE "False"

\* One entry of the call list: method `call` of step number `step` was invoked
\* with argument `arg` while the status display was running or not (`live`),
\* and returned (or raised) `ret`.
Call(i, method, isLive, arg, ret) ==
    [step |-> i, call |-> method, live |-> isLive, arg |-> arg, ret |-> ret]

\* No exception has left run_plan.
NoExc == [kind |-> "none", message |-> NoMessage]

\* raise click.ClickException(message)
ClickException(msg) == [kind |-> "ClickException", message |-> msg]

\* An exception raised by a step method: run_plan has no handler, it propagates.
StepError == [kind |-> "StepError", message |-> NoMessage]

\* Every plan of at most MaxPlan steps.
Plans == UNION {[1..n -> StepNames] : n \in 0..MaxPlan}

(***************************************************************************)
(* run_plan                                                                *)
(***************************************************************************)
\* status.stop()
StatusStop(isLive) == FALSE

\* status.start(), and console.status(...).__enter__
StatusStart(isLive) == TRUE

\* Mutant of NextIndex: the loop does not advance past the first step.
NextIndexStays(i) == IF i = 0 THEN 1 ELSE i

\* The for loop's next position.
NextIndex(i) == i + 1

\* Mutant of RecordResult: an entry already there is kept (setdefault).
RecordResultKeepsFirst(d, name, result) ==
    IF name \in DOMAIN d THEN d ELSE DictSet(d, name, result)

\* results[step.__class__.__name__] = result
RecordResult(d, name, result) == DictSet(d, name, result)

\* Mutant of SkipBranch: a SKIPPED skip check does not short-circuit run.
SkipBranchRunsSkipped(rt, noRaise) ==
    IF rt = "FAILED" THEN (IF noRaise THEN "break" ELSE "raise")
    ELSE "run"

\* Mutant of SkipBranch: a FAILED skip check is not looked at.
SkipBranchRunsFailed(rt, noRaise) ==
    IF rt = "SKIPPED" THEN "continue"
    ELSE "run"

\* What run_plan does with the Result of is_skip.
SkipBranch(rt, noRaise) ==
    IF rt = "SKIPPED" THEN "continue"
    ELSE IF rt = "FAILED" THEN (IF noRaise THEN "break" ELSE "raise")
    ELSE "run"

\* Mutant of RunBranch: the result_type of run is not looked at.
RunBranchIgnoresFailure(rt, noRaise) == "next"

\* Mutant of RunBranch: no_raise is not looked at.
RunBranchAlwaysRaises(rt, noRaise) ==
    IF rt = "FAILED" THEN "raise"
    ELSE "next"

\* What run_plan does with the Result of run, after the with block.
RunBranch(rt, noRaise) ==
    IF rt = "FAILED" THEN (IF noRaise THEN "break" ELSE "raise")
    ELSE "next"

\* Mutant of CallsPrompt: the flag argument turns prompting off.
CallsPromptUnlessFlag(hasPrompts, noHint) == hasPrompts /\ ~noHint

\* Whether run_plan calls step.prompt, given what has_prompts() returned and
\* run_plan's no_hint argument.
CallsPrompt(hasPrompts, noHint) == hasPrompts

PlanInit ==
    /\ plan \in Plans
    /\ no_hint \in BOOLEAN
    /\ no_raise \in BOOLEAN
    /\ idx = 0
    /\ pc = "for"
    /\ results = EmptyDict
    /\ live = FALSE
    /\ exc = NoExc
    /\ calls = <<>>

\* for step in plan: with console.status(step.status) as status:
ForStep ==
    /\ pc = "for"
    /\ idx < Len(plan)
    /\ idx' = NextIndex(idx)
    /\ live' = StatusStart(live)
    /\ pc' = "has_prompts"
    /\ UNCHANGED <<plan, no_hint, no_raise, results, exc, calls>>
    /\ UNCHANGED nonPlanVars

\* The loop is over: return results
Return ==
    /\ pc = "for"
    /\ idx >= Len(plan)
    /\ pc' = "returned"
    /\ UNCHANGED <<plan, no_hint, no_raise, idx, results, live, exc, calls>>
    /\ UNCHANGED nonPlanVars

\* if step.has_prompts():
HasPrompts ==
    /\ pc = "has_prompts"
    /\ \E b \in BOOLEAN :
        /\ calls' = Append(calls, Call(idx, "has_prompts", live, "-", BoolStr(b)))
        /\ pc' = IF CallsPrompt(b, no_hint) THEN "prompt" ELSE "is_skip"
    /\ UNCHANGED <<plan, no_hint, no_raise, idx, results, live, exc>>
    /\ UNCHANGED nonPlanVars

\* status.stop(); step.prompt(console, no_hint); status.start()
Prompt ==
    /\ pc = "prompt"
    /\ \E out \in {"None", Raises} :
        LET stopped == StatusStop(live) IN
        /\ calls' = Append(calls, Call(idx, "prompt", stopped, BoolStr(no_hint), out))
        /\ IF out = Raises
           THEN \* the with block is left by the exception: the display is stopped
                /\ live' = FALSE
                /\ exc' = StepError
                /\ pc' = "raised"
           ELSE /\ live' = StatusStart(stopped)
                /\ exc' = exc
                /\ pc' = "is_skip"
    /\ UNCHANGED <<plan, no_hint, no_raise, idx, results>>
    /\ UNCHANGED nonPlanVars

\* skip_result = step.is_skip(status), and the two branches on its result_type
IsSkip ==
    /\ pc = "is_skip"
    /\ \E rt \in ResultType \cup {Raises} :
        LET skip_result == Result(rt, Message(idx, "is_skip"))
            branch == SkipBranch(rt, no_raise)
        IN
        /\ calls' = Append(calls, Call(idx, "is_skip", live, "-", rt))
        /\ IF rt = Raises
           THEN /\ live' = FALSE
                /\ exc' = StepError
                /\ pc' = "raised"
                /\ results' = results
           ELSE IF branch = "continue"
           THEN /\ results' = RecordResult(results, plan[idx], skip_result)
                /\ live' = FALSE
                /\ exc' = exc
                /\ pc' = "for"
           ELSE IF branch = "break"
           THEN /\ results' = RecordResult(results, plan[idx], skip_result)
                /\ live' = FALSE
                /\ exc' = exc
                /\ pc' = "returned"
           ELSE IF branch = "raise"
           THEN /\ results' = results
                /\ live' = FALSE
                /\ exc' = ClickException(skip_result.message)
                /\ pc' = "raised"
           ELSE /\ results' = results
                /\ live' = live
                /\ exc' = exc
                /\ pc' = "run"
    /\ UNCHANGED <<plan, no_hint, no_raise, idx>>
    /\ UNCHANGED nonPlanVars

\* result = step.run(status); results[...] = result; then, after the with
\* block, the branch on result.result_type
Run ==
    /\ pc = "run"
    /\ \E rt \in ResultType \cup {Raises} :
        LET result == Result(rt, Message(idx, "run"))
            branch == RunBranch(rt, no_raise)
        IN
        /\ calls' = Append(calls, Call(idx, "run", live, "-", rt))
        /\ live' = FALSE
        /\ IF rt = Raises
           THEN /\ exc' = StepError
                /\ pc' = "raised"
                /\ results' = results
           ELSE /\ results' = RecordResult(results, plan[idx], result)
                /\ exc' = IF branch = "raise" THEN ClickException(result.message) ELSE exc
                /\ pc' = IF branch = "raise" THEN "raised"
                         ELSE IF branch = "break" THEN "returned"
                         ELSE "for"
    /\ UNCHANGED <<plan, no_hint, no_raise, idx>>
    /\ UNCHANGED nonPlanVars

\* get_step_result(plan_results, step): plan_results[step.__name__]; a missing
\* key is a KeyError.
get_step_result(plan_results, name) ==
    IF name \in DOMAIN plan_results THEN plan_results[name] ELSE "KeyError"

\* get_step_message(plan_results, step)
get_step_message(plan_results, name) ==
    IF name \in DOMAIN plan_results THEN plan_results[name].message ELSE "None"

PlanNext ==
    \/ ForStep
    \/ Return
    \/ HasPrompts
    \/ Prompt
    \/ IsSkip
    \/ Run


(***************************************************************************)
(* Feature gates: the sources                                              *)
(***************************************************************************)
\* A class attribute that is not declared (hasattr is False).
NoAttr == "<no attribute>"

\* The identifiers capabilities are declared with.
BackendTypes == {"ceph"}
FeatureNames == {"telemetry"}

\* A capability: a FeatureGateMixin subclass instance.
Caps ==
    [backend_type : BackendTypes \cup {NoAttr},
     name : FeatureNames \cup {NoAttr},
     generally_available : BOOLEAN]

\* The gate keys of the capabilities above.
GateKeys ==
    {"feature.storage." \o b : b \in BackendTypes} \cup {"feature." \o n : n \in FeatureNames}

\* A snap configuration key that is not set: snap.config.get raises UnknownConfigKey.
Unset == "<unset>"

\* The values a set key may hold: JSON true, JSON false, and a non-empty string.
SnapValues == {"true", "false", "string"}

\* Python truthiness of a snap configuration value.
Truthy(v) == v \in {"true", "string"}

\* The decoded JSON lists the enabled-list config item may hold: lists of
\* identifiers, none twice.
EnabledLists ==
    LET ids == BackendTypes \cup FeatureNames IN
    {<<>>} \cup {<<a>> : a \in ids} \cup {p \in ids \X ids : p[1] # p[2]}

\* The cluster config item of the enabled capabilities does not exist.
NotFound == [found |-> FALSE, json |-> FALSE, items |-> <<>>]

\* The config item holds text that is not a JSON document.
NotJSON == [found |-> TRUE, json |-> FALSE, items |-> <<>>]

\* json.dumps(list): the config item holding the list as a JSON document.
JsonDumps(list) == [found |-> TRUE, json |-> TRUE, items |-> list]

\* The states of that config item: missing, holding a list, or holding other text.
ConfigItems == {NotFound, NotJSON} \cup {JsonDumps(list) : list \in EnabledLists}

\* x in a decoded JSON list
InList(x, list) == \E i \in 1..Len(list) : list[i] = x

\* The source call of a resolution that fails with an exception that is neither
\* ClusterServiceUnavailableException, ConfigItemNotFoundException nor
\* UnknownConfigKey: none of them, or a call on the cluster client or on the snap
\* (any other error of the transport or of snapctl).
Faults == {"None", "get_feature_gate", "get_config", "snap.config.get"}

\* What a resolution reads: the sources as they are when check_gated runs.
Env(snapCfg, gates, list, up, flt) ==
    [snap |-> snapCfg, gates |-> gates, list |-> list, up |-> up, fault |-> flt]

\* client.cluster.get_feature_gate(key): the record's enabled field, or an exception
\* (the record does not exist, or the cluster service does not answer).
ClusterGetFeatureGate(env, key) ==
    IF env.fault = "get_feature_gate" THEN "Exception"
    ELSE IF ~env.up THEN "ClusterServiceUnavailable"
    ELSE IF env.gates[key] = "absent" THEN "FeatureGateNotFound"
    ELSE env.gates[key]

\* client.cluster.get_config(key): the stored list, or an exception.
ClusterGetConfig(env, key) ==
    IF env.fault = "get_config" THEN [raised |-> "Exception", value |-> NotFound]
    ELSE IF ~env.up THEN [raised |-> "ClusterServiceUnavailable", value |-> NotFound]
    ELSE IF ~env.list.found THEN [raised |-> "ConfigItemNotFound", value |-> NotFound]
    ELSE [raised |-> "None", value |-> env.list]

\* snap.config.get(key): the value, or UnknownConfigKey.
SnapConfigGet(env, key) ==
    IF env.fault = "snap.config.get" THEN "Exception"
    ELSE IF env.snap[key] = Unset THEN "UnknownConfigKey" ELSE env.snap[key]

(***************************************************************************)
(* FeatureGateMixin                                                        *)
(***************************************************************************)
ValueError == "ValueError"

\* Mutant of gate_key: the key of a storage backend lacks the feature prefix.
gate_key_storage_prefix(cap) ==
    IF cap.backend_type # NoAttr THEN "storage." \o cap.backend_type
    ELSE IF cap.name # NoAttr THEN "feature." \o cap.name
    ELSE ValueError

\* The gate_key property.
gate_key(cap) ==
    IF cap.backend_type # NoAttr THEN "feature.storage." \o cap.backend_type
    ELSE IF cap.name # NoAttr THEN "feature." \o cap.name
    ELSE ValueError

\* Mutant of GenerallyAvailable: the flag is not consulted.
GenerallyAvailableIgnored(cap) == FALSE

\* if self.generally_available: return False
GenerallyAvailable(cap) == cap.generally_available

\* One call of a resolution on a source, with what it returned or raised.
SourceCall(source, arg, ret) == [source |-> source, arg |-> arg, ret |-> ret]

\* Mutant of GateRecordStage: the cluster database is not asked.
GateRecordStageOmitted(cap, client, env) == [calls |-> <<>>, hit |-> FALSE]

\* The cluster database lookup of check_gated: the calls it makes and whether it
\* ends the resolution (the record is enabled). Any exception, the ValueError of
\* gate_key included, is caught and passed over.
GateRecordStage(cap, client, env) ==
    IF ~client \/ gate_key(cap) = ValueError
    THEN [calls |-> <<>>, hit |-> FALSE]
    ELSE LET gate == ClusterGetFeatureGate(env, gate_key(cap)) IN
         [calls |-> <<SourceCall("get_feature_gate", gate_key(cap), gate)>>,
          hit |-> gate = "enabled"]

\* The identifier check_gated looks for in the enabled list: backend_type if the
\* capability has one, else name, else nothing.
ListIdentifier(cap) ==
    IF cap.backend_type # NoAttr THEN cap.backend_type
    ELSE IF cap.name # NoAttr THEN cap.name
    ELSE NoAttr

\* json.loads(enabled_items): the decoded list, or JSONDecodeError when the item
\* does not hold a JSON document.
JsonLoads(text) ==
    IF ~text.json
    THEN [raised |-> "JSONDecodeError", value |-> <<>>]
    ELSE [raised |-> "None", value |-> text.items]

\* The enabled-list lookup of check_gated: the calls it makes, whether it ends
\* the resolution (the identifier is listed) and the exception that leaves it.
\* ConfigItemNotFoundException and ClusterServiceUnavailableException are caught
\* and passed over; no other exception is. json.loads is reached only for a
\* capability that has a backend_type or a name.
EnabledListStage(cap, client, enabled_config_key, env) ==
    IF ~client \/ enabled_config_key = "None"
    THEN [calls |-> <<>>, hit |-> FALSE, raised |-> "None"]
    ELSE LET enabled_items == ClusterGetConfig(env, enabled_config_key)
             call == <<SourceCall("get_config", enabled_config_key, enabled_items)>>
             decoded == JsonLoads(enabled_items.value)
         IN
         IF enabled_items.raised = "Exception"
         THEN [calls |-> call, hit |-> FALSE, raised |-> "Exception"]
         ELSE IF enabled_items.raised # "None" \/ ListIdentifier(cap) = NoAttr
         THEN [calls |-> call, hit |-> FALSE, raised |-> "None"]
         ELSE IF decoded.raised # "None"
         THEN [calls |-> call, hit |-> FALSE, raised |-> decoded.raised]
         ELSE [calls |-> call,
               hit |-> InList(ListIdentifier(cap), decoded.value),
               raised |-> "None"]

\* Mutant of SnapStage: the ValueError of gate_key is passed over, as in the
\* cluster database lookup.
SnapStageSwallowsValueError(cap, env) ==
    IF gate_key(cap) = ValueError
    THEN [calls |-> <<>>, hit |-> FALSE, raised |-> "None"]
    ELSE LET value == SnapConfigGet(env, gate_key(cap)) IN
         [calls |-> <<SourceCall("snap.config.get", gate_key(cap), value)>>,
          hit |-> value \notin {"UnknownConfigKey", "Exception"} /\ Truthy(value),
          raised |-> IF value = "Exception" THEN "Exception" ELSE "None"]

\* Mutant of SnapStage: a key that is set enables, whatever its value.
SnapStageKeyIsSet(cap, env) ==
    IF gate_key(cap) = ValueError
    THEN [calls |-> <<>>, hit |-> FALSE, raised |-> ValueError]
    ELSE LET value == SnapConfigGet(env, gate_key(cap)) IN
         [calls |-> <<SourceCall("snap.config.get", gate_key(cap), value)>>,
          hit |-> value \notin {"UnknownConfigKey", "Exception"},
          raised |-> IF value = "Exception" THEN "Exception" ELSE "None"]

\* The local snap configuration lookup of check_gated: UnknownConfigKey is caught,
\* the ValueError of gate_key and any other exception of the lookup are not.
SnapStage(cap, env) ==
    IF gate_key(cap) = ValueError
    THEN [calls |-> <<>>, hit |-> FALSE, raised |-> ValueError]
    ELSE LET value == SnapConfigGet(env, gate_key(cap)) IN
         [calls |-> <<SourceCall("snap.config.get", gate_key(cap), value)>>,
          hit |-> value \notin {"UnknownConfigKey", "Exception"} /\ Truthy(value),
          raised |-> IF value = "Exception" THEN "Exception" ELSE "None"]

\* Mutant of check_gated: a gate record that says disabled ends the resolution.
check_gated_record_decides(cap, client, snapGiven, enabled_config_key, env) ==
    LET new == IF snapGiven THEN <<>> ELSE <<SourceCall("Snap()", "-", "-")>>
        db == GateRecordStage(cap, client, env)
    IN
    IF GenerallyAvailable(cap) THEN [ret |-> "False", calls |-> <<>>]
    ELSE IF db.hit THEN [ret |-> "False", calls |-> new \o db.calls]
    ELSE IF db.calls # <<>> /\ db.calls[1].ret = "disabled"
    THEN [ret |-> "True", calls |-> new \o db.calls]
    ELSE LET cfg == EnabledListStage(cap, client, enabled_config_key, env)
             loc == SnapStage(cap, env)
         IN
         IF cfg.raised # "None"
         THEN [ret |-> cfg.raised, calls |-> new \o db.calls \o cfg.calls]
         ELSE IF cfg.hit THEN [ret |-> "False", calls |-> new \o db.calls \o cfg.calls]
         ELSE IF loc.raised # "None"
         THEN [ret |-> loc.raised, calls |-> new \o db.calls \o cfg.calls \o loc.calls]
         ELSE IF loc.hit
         THEN [ret |-> "False", calls |-> new \o db.calls \o cfg.calls \o loc.calls]
         ELSE [ret |-> "True", calls |-> new \o db.calls \o cfg.calls \o loc.calls]

\* check_gated(client, snap, enabled_config_key): what it returns ("True": gated,
\* "False": not gated) or raises, and the calls it makes on the sources.
check_gated(cap, client, snapGiven, enabled_config_key, env) ==
    IF GenerallyAvailable(cap) THEN [ret |-> "False", calls |-> <<>>]
    ELSE
    LET new == IF snapGiven THEN <<>> ELSE <<SourceCall("Snap()", "-", "-")>>
        db == GateRecordStage(cap, client, env)
        cfg == EnabledListStage(cap, client, enabled_config_key, env)
        loc == SnapStage(cap, env)
    IN
    IF db.hit THEN [ret |-> "False", calls |-> new \o db.calls]
    ELSE IF cfg.raised # "None" THEN [ret |-> cfg.raised, calls |-> new \o db.calls \o cfg.calls]
    ELSE IF cfg.hit THEN [ret |-> "False", calls |-> new \o db.calls \o cfg.calls]
    ELSE IF loc.raised # "None"
    THEN [ret |-> loc.raised, calls |-> new \o db.calls \o cfg.calls \o loc.calls]
    ELSE IF loc.hit
    THEN [ret |-> "False", calls |-> new \o db.calls \o cfg.calls \o loc.calls]
    ELSE [ret |-> "True", calls |-> new \o db.calls \o cfg.calls \o loc.calls]

\* No resolution has run yet.
NoCheck ==
    [cap |-> [backend_type |-> NoAttr, name |-> NoAttr, generally_available |-> FALSE],
     client |-> FALSE, snapGiven |-> FALSE, enabled_config_key |-> "None",
     env |-> Env([k \in GateKeys |-> Unset], [k \in GateKeys |-> "absent"], NotFound, FALSE, "None"),
     ret |-> "-", calls |-> <<>>]

\* FEATURE_GATES: the registry of the gates of options, commands and roles, with
\* their generally_available flag. It is empty.
FEATURE_GATES == [k \in {} |-> [generally_available |-> FALSE]]

\* is_feature_gate_enabled(gate_key, snap): "True", "False", or the exception of
\* the snap lookup that is not UnknownConfigKey.
is_feature_gate_enabled(key, env) ==
    IF key \in DOMAIN FEATURE_GATES /\ FEATURE_GATES[key].generally_available
    THEN "True"
    ELSE LET value == SnapConfigGet(env, key) IN
         IF value = "UnknownConfigKey" THEN "False"
         ELSE IF value = "Exception" THEN "Exception"
         ELSE BoolStr(Truthy(value))

\* is_feature_gate_enabled has not run yet.
NoGate == [key |-> "-", ret |-> "-"]

\* The values of enabled_config_key callers pass.
EnabledConfigKeys == {"None", "StorageBackendsEnabled"}

GateInit ==
    /\ snapConfig \in [GateKeys -> SnapValues \cup {Unset}]
    /\ dbGates \in [GateKeys -> {"absent", "enabled", "disabled"}]
    /\ dbEnabledList \in ConfigItems
    /\ clusterUp \in BOOLEAN
    /\ fault \in Faults
    /\ lastCheck = NoCheck
    /\ lastGate = NoGate

\* A caller resolves a capability's gate: one resolution per run of the model,
\* over sources in any state.
CheckGated ==
    /\ lastCheck = NoCheck
    /\ \E cap \in Caps, client \in BOOLEAN, snapGiven \in BOOLEAN, key \in EnabledConfigKeys :
        LET env == Env(snapConfig, dbGates, dbEnabledList, clusterUp, fault)
            out == check_gated(cap, client, snapGiven, key, env)
        IN
        /\ lastCheck' =
              [cap |-> cap, client |-> client, snapGiven |-> snapGiven,
               enabled_config_key |-> key, env |-> env,
               ret |-> out.ret, calls |-> out.calls]
        /\ UNCHANGED <<snapConfig, dbGates, dbEnabledList, clusterUp, fault, lastGate>>
        /\ UNCHANGED nonGateVars

GateNext == CheckGated

\* A caller (a role, an option, a command) asks whether a gate key is enabled:
\* once per run of the model.
IsFeatureGateEnabled ==
    /\ lastGate = NoGate
    /\ \E key \in GateKeys :
        LET env == Env(snapConfig, dbGates, dbEnabledList, clusterUp, fault) IN
        lastGate' = [key |-> key, ret |-> is_feature_gate_enabled(key, env)]
    /\ UNCHANGED <<snapConfig, dbGates, dbEnabledList, clusterUp, fault, lastCheck>>
    /\ UNCHANGED nonGateVars

EntryNext ==
    \/ CheckGated
    \/ IsFeatureGateEnabled

(***************************************************************************)
(* StorageBackendBase                                                      *)
(***************************************************************************)
ENABLED_BACKENDS_CONFIG_KEY == "StorageBackendsEnabled"

\* The storage backends: the capabilities that have a backend_type.
StorageBackends == {c \in Caps : c.backend_type # NoAttr}

\* check_enabled(client, snap): not check_gated(...), or the exception of it.
check_enabled(cap, client, env) ==
    LET out == check_gated(cap, client, TRUE, ENABLED_BACKENDS_CONFIG_KEY, env) IN
    IF out.ret = "True" THEN "False"
    ELSE IF out.ret = "False" THEN "True"
    ELSE out.ret

\* Mutant of enable_backend: the list is written back without the backend.
enable_backend_not_appended(cap, env) ==
    [ret |-> "None", list |-> env.list, wrote |-> TRUE]

\* Mutant of enable_backend: the backend is appended whether listed or not.
enable_backend_always_appends(cap, env) ==
    LET item == ClusterGetConfig(env, ENABLED_BACKENDS_CONFIG_KEY)
        decoded == JsonLoads(item.value)
        enabled_backends ==
            IF item.raised = "ConfigItemNotFound" THEN <<>> ELSE decoded.value
    IN
    IF item.raised \notin {"None", "ConfigItemNotFound"}
    THEN [ret |-> item.raised, list |-> env.list, wrote |-> FALSE]
    ELSE IF item.raised = "None" /\ decoded.raised # "None"
    THEN [ret |-> decoded.raised, list |-> env.list, wrote |-> FALSE]
    ELSE [ret |-> "None",
          list |-> JsonDumps(Append(enabled_backends, cap.backend_type)),
          wrote |-> TRUE]

\* enable_backend(client): what it raises ("None": it returns), the config item
\* it leaves and whether it called update_config. Only
\* ConfigItemNotFoundException is caught.
enable_backend(cap, env) ==
    LET item == ClusterGetConfig(env, ENABLED_BACKENDS_CONFIG_KEY)
        decoded == JsonLoads(item.value)
        enabled_backends ==
            IF item.raised = "ConfigItemNotFound" THEN <<>> ELSE decoded.value
    IN
    IF item.raised \notin {"None", "ConfigItemNotFound"}
    THEN [ret |-> item.raised, list |-> env.list, wrote |-> FALSE]
    ELSE IF item.raised = "None" /\ decoded.raised # "None"
    THEN [ret |-> decoded.raised, list |-> env.list, wrote |-> FALSE]
    ELSE IF InList(cap.backend_type, enabled_backends)
    THEN [ret |-> "None", list |-> env.list, wrote |-> FALSE]
    ELSE [ret |-> "None",
          list |-> JsonDumps(Append(enabled_backends, cap.backend_type)),
          wrote |-> TRUE]

\* enable_backend has not run yet.
NoEnable == [backend |-> "-", ret |-> "-"]

\* check_enabled has not run yet.
NoEnabled ==
    [cap |-> NoCheck.cap, client |-> FALSE, env |-> NoCheck.env,
     after |-> NoEnable, ret |-> "-"]

\* A backend is enabled in the cluster: once per run of the model.
EnableBackend ==
    /\ lastEnable = NoEnable
    /\ \E cap \in StorageBackends :
        LET env == Env(snapConfig, dbGates, dbEnabledList, clusterUp, fault)
            out == enable_backend(cap, env)
        IN
        /\ lastEnable' = [backend |-> cap.backend_type, ret |-> out.ret]
        /\ dbEnabledList' = out.list
    /\ UNCHANGED <<snapConfig, dbGates, clusterUp, fault, lastCheck, lastGate, lastEnabled>>
    /\ UNCHANGED nonStorageVars

\* A caller asks whether a backend is enabled: once per run of the model,
\* before or after enable_backend.
CheckEnabled ==
    /\ lastEnabled = NoEnabled
    /\ \E cap \in StorageBackends, client \in BOOLEAN :
        LET env == Env(snapConfig, dbGates, dbEnabledList, clusterUp, fault) IN
        lastEnabled' =
            [cap |-> cap, client |-> client, env |-> env,
             after |-> lastEnable, ret |-> check_enabled(cap, client, env)]
    /\ UNCHANGED <<lastEnable>>
    /\ UNCHANGED gateVars
    /\ UNCHANGED nonStorageVars

StorageNext ==
    \/ EnableBackend
    \/ CheckEnabled

(***************************************************************************)
(* Roles: validate_roles, bootstrap, join                                  *)
(***************************************************************************)
\* class Role(enum.Enum): the member names.
Role == {"CONTROL", "COMPUTE", "STORAGE", "NETWORK", "REGION_CONTROLLER"}

\* The strings a user writes between the commas of a --role value.
RoleStrings ==
    {"control", "compute", "storage", "network", "region_controller",
     "REGION_CONTROLLER", "bogus"}

\* role_str.upper()
Upper(str) ==
    CASE str = "control" -> "CONTROL"
      [] str = "compute" -> "COMPUTE"
      [] str = "storage" -> "STORAGE"
      [] str = "network" -> "NETWORK"
      [] str \in {"region_controller", "REGION_CONTROLLER"} -> "REGION_CONTROLLER"
      [] OTHER -> "BOGUS"

\* One value of the option, as val.split(",") cuts it: its pieces in order.
OptionValues == UNION {[1..n -> RoleStrings] : n \in 1..MaxRolesPerOption}

\* The tuples click hands to the callback: the option given up to twice.
OptionTuples ==
    {<<>>} \cup {<<a>> : a \in OptionValues} \cup (OptionValues \X OptionValues)

\* ROLE_GATES
ROLE_GATES == [r \in {"REGION_CONTROLLER"} |-> "feature.multi-region"]

\* The sources is_feature_gate_enabled reads for a role gate: the snap only.
RoleEnv(snapValue) ==
    Env([k \in {"feature.multi-region"} |-> snapValue],
        [k \in {"feature.multi-region"} |-> "absent"], NotFound, FALSE, "None")

\* Mutant of is_role_enabled: the gate table is not consulted.
is_role_enabled_ungated(role, snapValue) == TRUE

\* _is_role_enabled(role)
is_role_enabled(role, snapValue) ==
    IF role \notin DOMAIN ROLE_GATES THEN TRUE
    ELSE is_feature_gate_enabled(ROLE_GATES[role], RoleEnv(snapValue)) = "True"

\* roles: set[str], after roles.update(val.split(",")) for every val.
RoleStringSet(value) ==
    {value[i][j] : <<i, j>> \in {p \in (1..Len(value)) \X (1..MaxRolesPerOption) :
                                   p[2] <= Len(value[p[1]])}}

\* A list of roles, as the number of times it holds each Role.
NoRoles == [r \in Role |-> 0]

\* len(roles)
RECURSIVE RolesLen(_, _)
RolesLen(roles, S) ==
    IF S = {} THEN 0
    ELSE LET r == CHOOSE x \in S : TRUE IN roles[r] + RolesLen(roles, S \ {r})

\* click.BadParameter, for an unknown name or for a role that is not enabled.
BadParameter(role_str, why) == [kind |-> "BadParameter", role |-> role_str, why |-> why]

\* What the loop of validate_roles does with one role_str: None, or the error.
ValidateOne(role_str, snapValue) ==
    IF Upper(role_str) \notin Role THEN BadParameter(role_str, "KeyError")
    ELSE IF ~is_role_enabled(Upper(role_str), snapValue)
    THEN BadParameter(role_str, ROLE_GATES[Upper(role_str)])
    ELSE [kind |-> "None", role |-> role_str, why |-> "-"]

\* validated_roles when every role_str passes: one entry per string of the set.
ValidatedRoles(value) ==
    [r \in Role |-> Cardinality({str \in RoleStringSet(value) : Upper(str) = r})]

NoRoleError == [kind |-> "None", role |-> "-", why |-> "-"]

RoleInit ==
    /\ rvalue \in OptionTuples
    /\ rsnap \in {Unset, "true", "false"}
    /\ rpc = "callback"
    /\ rroles = NoRoles
    /\ rerr = NoRoleError
    /\ rcmd = "-"

\* The callback of --role. A set of str is iterated in no specified order: the
\* loop raises for whichever failing string it meets first.
ValidateRoles ==
    /\ rpc = "callback"
    /\ LET roles == RoleStringSet(rvalue)
           failing == {str \in roles : ValidateOne(str, rsnap).kind # "None"}
       IN
       IF failing = {}
       THEN /\ rroles' = ValidatedRoles(rvalue)
            /\ rerr' = rerr
            /\ rpc' = "validated"
       ELSE \E str \in failing :
            /\ rerr' = ValidateOne(str, rsnap)
            /\ rroles' = rroles
            /\ rpc' = "bad_parameter"
    /\ UNCHANGED <<rvalue, rsnap, rcmd>>
    /\ UNCHANGED nonRoleVars

\* The two checks on the roles that bootstrap and join share.
ExclusionError(roles) ==
    IF roles["NETWORK"] > 0 /\ roles["COMPUTE"] > 0
    THEN "A node cannot be both a compute and network node at the same time."
    ELSE IF roles["REGION_CONTROLLER"] > 0 /\ RolesLen(roles, Role) > 1
    THEN "The region controller role is mutually exclusive with all other roles."
    ELSE "None"

\* bootstrap appends CONTROL when the roles hold neither CONTROL nor
\* REGION_CONTROLLER.
BootstrapRoles(roles) ==
    IF roles["CONTROL"] = 0 /\ roles["REGION_CONTROLLER"] = 0
    THEN [roles EXCEPT !["CONTROL"] = 1]
    ELSE roles

\* The outcome of the role checks of a command: where it stands and its error.
RoleChecks(roles) ==
    IF ExclusionError(roles) # "None"
    THEN [pc |-> "click_exception",
          err |-> [kind |-> "ClickException", role |-> "-", why |-> ExclusionError(roles)]]
    ELSE [pc |-> "accepted", err |-> NoRoleError]

\* bootstrap, up to the end of its role checks.
Bootstrap ==
    /\ rpc = "validated"
    /\ rcmd' = "bootstrap"
    /\ rroles' = BootstrapRoles(rroles)
    /\ rpc' = RoleChecks(BootstrapRoles(rroles)).pc
    /\ rerr' = RoleChecks(BootstrapRoles(rroles)).err
    /\ UNCHANGED <<rvalue, rsnap>>
    /\ UNCHANGED nonRoleVars

\* join, up to the end of its role checks.
Join ==
    /\ rpc = "validated"
    /\ rcmd' = "join"
    /\ rroles' = rroles
    /\ rpc' = RoleChecks(rroles).pc
    /\ rerr' = RoleChecks(rroles).err
    /\ UNCHANGED <<rvalue, rsnap>>
    /\ UNCHANGED nonRoleVars

\* The rest of the command: the preflight checks, which may fail, then the
\* construction of the steps of its plans.
BuildPlans ==
    /\ rpc = "accepted"
    /\ \E ok \in BOOLEAN : rpc' = IF ok THEN "steps" ELSE "preflight_failed"
    /\ UNCHANGED <<rvalue, rsnap, rroles, rerr, rcmd>>
    /\ UNCHANGED nonRoleVars

RoleNext ==
    \/ ValidateRoles
    \/ Bootstrap
    \/ Join
    \/ BuildPlans

(***************************************************************************)
(* A capability object and its gate_key property                           *)
(***************************************************************************)
\* The capability classes whose key is derived: any of a few backend types and
\* names, or neither.
KeyCaps ==
    [backend_type : {"ceph", "pure-storage", "base", NoAttr},
     name : {"telemetry", "multi-region", "my-feature", NoAttr},
     generally_available : BOOLEAN]

KeyInit ==
    /\ kcap \in KeyCaps
    /\ kpc = "class"
    /\ kret = "-"
    /\ krequests = 0

\* The capability is instantiated: FeatureGateMixin defines no __init__, and
\* that of StorageBackendBase does not read the gate key.
Construct ==
    /\ kpc = "class"
    /\ kpc' = "instance"
    /\ UNCHANGED <<kcap, kret, krequests>>
    /\ UNCHANGED nonKeyVars

\* self.gate_key is read.
RequestGateKey ==
    /\ kpc = "instance"
    /\ krequests < MaxKeyRequests
    /\ kret' = gate_key(kcap)
    /\ krequests' = krequests + 1
    /\ UNCHANGED <<kcap, kpc>>
    /\ UNCHANGED nonKeyVars

KeyNext ==
    \/ Construct
    \/ RequestGateKey

(***************************************************************************)
(* ReapplyMicroOVNTerraformPlanStep.run under tenacity.retry               *)
(***************************************************************************)
\* wait=tenacity.wait_fixed(60)
WaitFixed == 60

\* stop=tenacity.stop_after_delay(300)
StopAfterDelay == 300

\* How long one attempt of run may take, in seconds.
AttemptDurations == {0, 15, 45}

\* What update_tfvars_and_apply_tf does: it returns, or raises the lock error,
\* another Terraform error, or an error of another kind.
ApplyOutcomes ==
    {"ok", "TerraformStateLockedException", "TerraformException", "Exception"}

\* The class hierarchy of the lock error: TerraformStateLockedException may or
\* may not derive from TerraformException.
LockedIsTerraformException == BOOLEAN

\* What wait_application_ready does.
WaitOutcomes == {"ready", "TimeoutError", "Exception"}

\* str(e) of the exception an attempt ended with.
StrOf(class, lockId) ==
    [text |-> "str(exception)", class |-> class,
     lock_id |-> IF class = "TerraformStateLockedException" THEN lockId ELSE "none",
     command |-> "none"]

\* A Result built without a message.
NoText == [text |-> "", class |-> "none", lock_id |-> "none", command |-> "none"]

\* The body of run returned a Result or raised.
Returned(rt, msg) == [raised |-> "None", result |-> Result(rt, msg)]
Raised(class) == [raised |-> class, result |-> Result("-", NoText)]

\* Mutant of ExceptTerraformException: the except clause is missing.
ExceptNothing(class, lockSub) == FALSE

\* except TerraformException as e: whether the clause catches an exception of
\* the class.
ExceptTerraformException(class, lockSub) ==
    \/ class = "TerraformException"
    \/ class = "TerraformStateLockedException" /\ lockSub

\* One execution of the body of run.
RunBody(apply, wait, lockSub, lockId) ==
    IF apply # "ok"
    THEN IF ExceptTerraformException(apply, lockSub)
         THEN Returned("FAILED", StrOf(apply, lockId))
         ELSE Raised(apply)
    ELSE IF wait = "TimeoutError" THEN Returned("FAILED", StrOf(wait, lockId))
    ELSE IF wait = "ready" THEN Returned("COMPLETED", NoText)
    ELSE Raised(wait)

\* retry=tenacity.retry_if_exception_type(TerraformStateLockedException)
RetryIf(out) == out.raised = "TerraformStateLockedException"

\* stop=tenacity.stop_after_delay(300), evaluated when an attempt has ended.
Stop(seconds_since_start) == seconds_since_start >= StopAfterDelay

\* convert_retry_failure_as_result(retry_state), the outcome being an exception.
convert_retry_failure_as_result(class, lockId) ==
    Result("FAILED", StrOf(class, lockId))

\* friendly_terraform_lock_retry_callback(retry_state), the outcome being an
\* exception: the message names the lock ID found in the text ("unknown" when
\* there is none) and the command that clears a stale lock.
friendly_terraform_lock_retry_callback(class, lockId) ==
    IF class = "TerraformStateLockedException"
    THEN Result("FAILED",
                [text |-> "Terraform state is locked", class |-> class,
                 lock_id |-> IF lockId = "none" THEN "unknown" ELSE lockId,
                 command |-> "sunbeam plans unlock <plan>"])
    ELSE Result("FAILED", StrOf(class, lockId))

\* retry_error_callback of the decorator of run.
RetryErrorCallback(class, lockId) == convert_retry_failure_as_result(class, lockId)

\* Nothing returned or raised yet.
NoResult == Raised("-")

RetryInit ==
    /\ tlockSub \in LockedIsTerraformException
    /\ tlockId \in {"none", "42"}
    /\ tpc = "call"
    /\ telapsed = 0
    /\ tattempts = <<>>
    /\ tresult = NoResult

\* One attempt: the body of run, then what tenacity does with its outcome.
Attempt ==
    /\ tpc = "call"
    /\ \E apply \in ApplyOutcomes, wait \in WaitOutcomes, d \in AttemptDurations :
        LET out == RunBody(apply, wait, tlockSub, tlockId)
            end == telapsed + d
        IN
        /\ apply # "ok" => wait = "ready"
        /\ telapsed' = end
        /\ tattempts' = Append(tattempts,
                               [start |-> telapsed, end |-> end, apply |-> apply,
                                wait |-> IF apply = "ok" THEN wait ELSE "-"])
        /\ IF ~RetryIf(out)
           THEN /\ tresult' = out
                /\ tpc' = IF out.raised = "None" THEN "done" ELSE "raised"
           ELSE IF Stop(end)
           THEN /\ tresult' = Returned("FAILED", RetryErrorCallback(out.raised, tlockId).message)
                /\ tpc' = "done"
           ELSE /\ tresult' = tresult
                /\ tpc' = "sleep"
    /\ UNCHANGED <<tlockSub, tlockId>>
    /\ UNCHANGED nonRetryVars

\* tenacity sleeps for the fixed wait before the next attempt.
Sleep ==
    /\ tpc = "sleep"
    /\ telapsed' = telapsed + WaitFixed
    /\ tpc' = "call"
    /\ UNCHANGED <<tlockSub, tlockId, tattempts, tresult>>
    /\ UNCHANGED nonRetryVars

RetryNext ==
    \/ Attempt
    \/ Sleep

(***************************************************************************)
(* _UpdateStatusThread and its producer (core/common.py)                   *)
(***************************************************************************)
STATUS_READY == "ready"
STATUS_NOT_READY == "not_ready"

\* An application counts as active from this many consecutive ready reports.
ActiveCount == 4

\* The lists of applications a step hands to update_status_background.
ApplicationLists == {<<"a">>, <<"a", "b">>}

\* The set of the applications of a list.
AppsOf(list) == {list[i] : i \in DOMAIN list}

\* The events the producer may put on the queue: a report of one of the
\* applications, or of an application the worker does not know.
StatusEvents(list) ==
    ({STATUS_READY, STATUS_NOT_READY} \X AppsOf(list)) \cup {<<STATUS_READY, "x">>}

\* apps = dict.fromkeys(self.applications, 0)
FromKeys(list) == [app \in AppsOf(list) |-> 0]

\* Mutant of CountEvent: a report that is not ready leaves the counter alone.
CountEventNoReset(status, count) ==
    IF status = STATUS_READY THEN count + 1 ELSE count

\* if status == STATUS_READY: apps[app] += 1 else: apps[app] = 0
CountEvent(status, count) ==
    IF status = STATUS_READY THEN count + 1 ELSE 0

\* _nb_active_apps(apps)
_nb_active_apps(apps) ==
    Cardinality({app \in DOMAIN apps : apps[app] >= ActiveCount})

\* What self.status.update was last called with.
NoDisplay == [kind |-> "none", n |-> 0, m |-> 0]
Progress(n, m) == [kind |-> "progress", n |-> n, m |-> m]
AllOnline == [kind |-> "online", n |-> 0, m |-> 0]

\* The last reports of an application, at most ActiveCount of them.
Recent(window, status) ==
    IF Len(window) < ActiveCount
    THEN Append(window, status)
    ELSE Append(Tail(window), status)

\* The reports ready, ready, ready, not-ready, ready, ready, ready, ready.
Flapping ==
    <<STATUS_READY, STATUS_READY, STATUS_READY, STATUS_NOT_READY,
      STATUS_READY, STATUS_READY, STATUS_READY, STATUS_READY>>

\* How far the reports of application "a" have followed Flapping from the
\* first one on; -1 once they have left it.
Follow(pos, status) ==
    IF pos >= 0 /\ pos < Len(Flapping) /\ Flapping[pos + 1] = status
    THEN pos + 1
    ELSE -1

StatusInit ==
    /\ uapps \in ApplicationLists
    /\ ustatus \in BOOLEAN
    /\ uqueue = <<>>
    /\ ustop = FALSE
    /\ upc = "start"
    /\ ucount = FromKeys(uapps)
    /\ unb = 0
    /\ udisplay = NoDisplay
    /\ uproduced = 0
    /\ uprod = "running"
    /\ urecent = [app \in AppsOf(uapps) |-> <<>>]
    /\ upat = 0
    /\ uafter = FALSE
    /\ utaken = 0
    /\ uacked = 0

\* run, up to the loop: nothing at all without a status display; otherwise the
\* counters are zeroed and 0/M is displayed.
WorkerStart ==
    /\ upc = "start"
    /\ IF ~ustatus
       THEN /\ upc' = "done"
            /\ UNCHANGED <<ucount, unb, udisplay, uafter>>
       ELSE /\ upc' = "loop"
            /\ ucount' = FromKeys(uapps)
            /\ unb' = 0
            /\ udisplay' = Progress(0, Len(uapps))
            /\ uafter' = (uafter \/ ustop)
    /\ UNCHANGED <<uapps, ustatus, uqueue, ustop, uproduced, uprod, urecent, upat,
                   utaken, uacked>>
    /\ UNCHANGED nonStatusVars

\* Mutant of WorkerLoop: the stop event is not tested.
WorkerLoopIgnoresStop ==
    /\ upc = "loop"
    /\ IF unb < Len(uapps)
       THEN /\ upc' = "get"
            /\ UNCHANGED <<udisplay, uafter>>
       ELSE /\ upc' = "done"
            /\ udisplay' = AllOnline
            /\ uafter' = (uafter \/ ustop)
    /\ UNCHANGED <<uapps, ustatus, uqueue, ustop, ucount, unb, uproduced, uprod,
                   urecent, upat, utaken, uacked>>
    /\ UNCHANGED nonStatusVars

\* The head of the loop: while nb_active_apps < nb_apps, and the test of the
\* stop event; when the loop ends, 'all services are online' is displayed.
WorkerLoop ==
    /\ upc = "loop"
    /\ IF unb < Len(uapps)
       THEN /\ upc' = IF ustop THEN "done" ELSE "get"
            /\ UNCHANGED <<udisplay, uafter>>
       ELSE /\ upc' = "done"
            /\ udisplay' = AllOnline
            /\ uafter' = (uafter \/ ustop)
    /\ UNCHANGED <<uapps, ustatus, uqueue, ustop, ucount, unb, uproduced, uprod,
                   urecent, upat, utaken, uacked>>
    /\ UNCHANGED nonStatusVars

\* queue.get returns an event: a report of an unknown application is dropped,
\* any other is counted and the progress displayed; either way task_done is
\* called.
WorkerGet ==
    /\ upc = "get"
    /\ uqueue # <<>>
    /\ LET status == Head(uqueue)[1]
           app == Head(uqueue)[2]
       IN
       /\ uqueue' = Tail(uqueue)
       /\ utaken' = utaken + 1
       /\ upc' = "loop"
       /\ IF app \notin DOMAIN ucount
          THEN /\ uacked' = uacked + 1
               /\ UNCHANGED <<ucount, unb, udisplay, urecent, upat, uafter>>
          ELSE LET apps == [ucount EXCEPT ![app] = CountEvent(status, ucount[app])]
               IN
               /\ ucount' = apps
               /\ unb' = _nb_active_apps(apps)
               /\ udisplay' = Progress(_nb_active_apps(apps), Len(uapps))
               /\ urecent' = [urecent EXCEPT ![app] = Recent(urecent[app], status)]
               /\ upat' = IF app = "a" THEN Follow(upat, status) ELSE upat
               /\ uafter' = (uafter \/ ustop)
               /\ uacked' = uacked + 1
    /\ UNCHANGED <<uapps, ustatus, ustop, uproduced, uprod>>
    /\ UNCHANGED nonStatusVars

\* queue.get(timeout=15) raises queue.Empty: continue.
WorkerEmpty ==
    /\ upc = "get"
    /\ uqueue = <<>>
    /\ upc' = "loop"
    /\ UNCHANGED <<uapps, ustatus, uqueue, ustop, ucount, unb, udisplay, uproduced,
                   uprod, urecent, upat, uafter, utaken, uacked>>
    /\ UNCHANGED nonStatusVars

\* The step puts a readiness event on the queue; with the queue full the put
\* does not go through.
Put ==
    /\ uprod = "running"
    /\ uproduced < MaxEvents
    /\ \E ev \in StatusEvents(uapps) :
        IF Len(uqueue) < QueueMax
        THEN /\ uqueue' = Append(uqueue, ev)
             /\ uproduced' = uproduced + 1
             /\ uprod' = uprod
        ELSE /\ uprod' = "full"
             /\ UNCHANGED <<uqueue, uproduced>>
    /\ UNCHANGED <<uapps, ustatus, ustop, upc, ucount, unb, udisplay, urecent, upat,
                   uafter, utaken, uacked>>
    /\ UNCHANGED nonStatusVars

\* The queue has room again: the producer goes on.
PutResume ==
    /\ uprod = "full"
    /\ Len(uqueue) < QueueMax
    /\ uprod' = "running"
    /\ UNCHANGED <<uapps, ustatus, uqueue, ustop, upc, ucount, unb, udisplay,
                   uproduced, urecent, upat, uafter, utaken, uacked>>
    /\ UNCHANGED nonStatusVars

\* stop(): the step signals the worker to stop.
stop ==
    /\ ~ustop
    /\ ustop' = TRUE
    /\ UNCHANGED <<uapps, ustatus, uqueue, upc, ucount, unb, udisplay, uproduced,
                   uprod, urecent, upat, uafter, utaken, uacked>>
    /\ UNCHANGED nonStatusVars

StatusNext ==
    \/ WorkerStart
    \/ WorkerLoop
    \/ WorkerGet
    \/ WorkerEmpty
    \/ Put
    \/ PutResume
    \/ stop

(***************************************************************************)
(* sync_feature_gates_from_snap_to_cluster (hooks.py) and its callers      *)
(***************************************************************************)
\* The values a local setting may hold: JSON true, false, null, a string.
SettingValues == {"True", "False", "None", "'off'"}

\* A setting and a nested dict of settings.
Leaf(v) == [leaf |-> TRUE, value |-> v, children |-> [k \in {} |-> 0]]
Dict(children) == [leaf |-> FALSE, value |-> "None", children |-> children]

\* A dict with no key.
NoSettings == [k \in {} |-> 0]

\* The dicts that may sit under feature.storage, and under feature.
StorageSettings ==
    {NoSettings} \cup {[k \in {"b"} |-> Leaf(v)] : v \in {"True", "False"}}
FeatureSettings ==
    {NoSettings}
    \cup {[k \in {"a"} |-> Leaf(v)] : v \in SettingValues}
    \cup {[k \in {"storage"} |-> Dict(s)] : s \in StorageSettings}
    \cup {[k \in {"a", "storage"} |-> IF k = "a" THEN Leaf(v) ELSE Dict(s)] :
             v \in SettingValues, s \in StorageSettings}

\* feature_options.as_dict(): the settings under the key 'feature', or bare.
AsDict(settings, bare) ==
    IF bare THEN settings ELSE [k \in {"feature"} |-> Dict(settings)]

\* flatten_dict(d, parent_key): the leaves of d as (dotted key, value) pairs, a
\* dotted key being the sequence of its segments.
RECURSIVE flatten_dict(_, _)
flatten_dict(d, parent_key) ==
    UNION {IF d[k].leaf
           THEN {<<Append(parent_key, k), d[k].value>>}
           ELSE flatten_dict(d[k].children, Append(parent_key, k)) : k \in DOMAIN d}

\* gate_key = key if key.startswith("feature.") else f"feature.{key}"
SyncGateKey(key) ==
    IF Len(key) > 1 /\ key[1] = "feature" THEN key ELSE <<"feature">> \o key

\* Mutant of enabled_bool: a null setting counts as enabled.
enabled_bool_of_none(value) == value # "False"

\* enabled_bool = bool(value) if value is not None else False
enabled_bool(value) == value \notin {"False", "None"}

\* The gate keys the cluster database may hold a record of.
SyncKeys == {<<"feature", "a">>, <<"feature", "storage", "b">>, <<"feature", "z">>}

\* The states of the gate records of the cluster database.
GateRecords == [SyncKeys -> {"absent", "enabled", "disabled"}]

\* The record state that holds a boolean.
RecordOf(enabled) == IF enabled THEN "enabled" ELSE "disabled"

\* What goes wrong during one run: the cluster is unreachable (every call
\* raises ClusterServiceUnavailableException), or one call raises, or nothing.
NoSyncFault == [reach |-> TRUE, key |-> <<>>, op |-> "none"]
Unreachable == [reach |-> FALSE, key |-> <<>>, op |-> "none"]
SyncFaults ==
    {NoSyncFault, Unreachable, [reach |-> TRUE, key |-> <<>>, op |-> "get_options"]}
    \cup {[reach |-> TRUE, key |-> k, op |-> o] :
             k \in SyncKeys \ {<<"feature", "z">>},
             o \in {"get_feature_gate", "update_feature_gate",
                                    "add_feature_gate"}}

\* Whether the call raises for a reason of the run.
SyncFails(flt, key, op) == ~flt.reach \/ (flt.key = key /\ flt.op = op)

\* client.cluster.get_feature_gate(gate_key)
SyncGet(db, key, flt) ==
    IF SyncFails(flt, key, "get_feature_gate") \/ db[key] = "absent"
    THEN [ok |-> FALSE, enabled |-> FALSE]
    ELSE [ok |-> TRUE, enabled |-> db[key] = "enabled"]

\* client.cluster.update_feature_gate(gate_key, enabled_bool)
SyncUpdate(db, key, enabled, flt) ==
    IF SyncFails(flt, key, "update_feature_gate") \/ db[key] = "absent"
    THEN [ok |-> FALSE, db |-> db]
    ELSE [ok |-> TRUE, db |-> [db EXCEPT ![key] = RecordOf(enabled)]]

\* client.cluster.add_feature_gate(gate_key, enabled_bool)
SyncAdd(db, key, enabled, flt) ==
    IF SyncFails(flt, key, "add_feature_gate") \/ db[key] # "absent"
    THEN [ok |-> FALSE, db |-> db]
    ELSE [ok |-> TRUE, db |-> [db EXCEPT ![key] = RecordOf(enabled)]]

\* A call made on the cluster client and whether it returned.
SyncCall(op, ok) == [op |-> op, ok |-> ok]

\* except Exception: add_feature_gate, a failure of which is logged.
CreateGate(db, key, enabled, flt, made) ==
    LET a == SyncAdd(db, key, enabled, flt)
    IN [db |-> a.db, calls |-> Append(made, SyncCall("add_feature_gate", a.ok)),
        warned |-> ~a.ok]

\* The body of the loop for one flattened key.
SyncKey(key, value, db, flt) ==
    LET gkey == SyncGateKey(key)
        enabled == enabled_bool(value)
        g == SyncGet(db, gkey, flt)
        got == <<SyncCall("get_feature_gate", g.ok)>>
    IN
    IF ~g.ok THEN CreateGate(db, gkey, enabled, flt, got)
    ELSE IF g.enabled = enabled THEN [db |-> db, calls |-> got, warned |-> FALSE]
    ELSE LET u == SyncUpdate(db, gkey, enabled, flt)
             tried == Append(got, SyncCall("update_feature_gate", u.ok))
         IN IF u.ok
            THEN [db |-> u.db, calls |-> tried, warned |-> FALSE]
            ELSE CreateGate(db, gkey, enabled, flt, tried)

\* The gate keys of a set of flattened (key, value) pairs.
GateKeysOf(flattened) == {SyncGateKey(kv[1]) : kv \in flattened}

\* The flattened pair of a gate key.
PairOf(flattened, gkey) ==
    CHOOSE kv \in flattened : SyncGateKey(kv[1]) = gkey

\* Mutant of ForEachKey: the first failure ends the loop, no other key is tried.
ForEachKeyAborting(flattened, db, flt) ==
    LET one(gk) == SyncKey(PairOf(flattened, gk)[1], PairOf(flattened, gk)[2], db, flt)
        failed == \E gk \in GateKeysOf(flattened) : one(gk).warned
    IN [gk \in GateKeysOf(flattened) |->
           IF failed /\ ~one(gk).warned
           THEN [db |-> db, calls |-> <<>>, warned |-> FALSE]
           ELSE one(gk)]

\* for key, value in flattened.items(): the outcome of the body for every key.
\* The bodies of different keys touch different records.
ForEachKey(flattened, db, flt) ==
    [gk \in GateKeysOf(flattened) |->
        SyncKey(PairOf(flattened, gk)[1], PairOf(flattened, gk)[2], db, flt)]

\* The database after the loop.
DbAfter(db, per) ==
    [k \in DOMAIN db |-> IF k \in DOMAIN per THEN per[k].db[k] ELSE db[k]]

\* A run that made no call.
NoCalls == [k \in {} |-> <<>>]

\* Mutant of sync_feature_gates_from_snap_to_cluster: ClusterServiceUnavailable
\* leaves the function.
sync_raising_unavailable(settings, bare, db, flt) ==
    [raised |-> ~flt.reach, settings |-> settings, db |-> db, calls |-> NoCalls,
     warned |-> {}]

\* Mutant of sync_feature_gates_from_snap_to_cluster: the settings are
\* overwritten from the cluster records.
sync_two_way(settings, bare, db, flt) ==
    [raised |-> FALSE,
     settings |-> IF "a" \in DOMAIN settings /\ db[<<"feature", "a">>] # "absent"
                  THEN [settings EXCEPT !["a"] =
                           Leaf(IF db[<<"feature", "a">>] = "enabled"
                                THEN "True" ELSE "False")]
                  ELSE settings,
     db |-> db, calls |-> NoCalls, warned |-> {}]

\* sync_feature_gates_from_snap_to_cluster(client, snap): whether it raised,
\* the local settings and the cluster records after it, the calls it made on
\* the cluster client per gate key, and the keys it logged a warning for.
sync_feature_gates_from_snap_to_cluster(settings, bare, db, flt) ==
    IF flt.op = "get_options" \/ settings = NoSettings
    THEN [raised |-> FALSE, settings |-> settings, db |-> db, calls |-> NoCalls,
          warned |-> {}]
    ELSE LET per == ForEachKey(flatten_dict(AsDict(settings, bare), <<>>), db, flt)
         IN [raised |-> FALSE, settings |-> settings, db |-> DbAfter(db, per),
             calls |-> [k \in DOMAIN per |-> per[k].calls],
             warned |-> {k \in DOMAIN per : per[k].warned}]

\* No run yet, or none since the local settings changed.
NoRun ==
    [entry |-> "none", fault |-> NoSyncFault, before |-> [k \in SyncKeys |-> "absent"],
     local_before |-> NoSettings, ran |-> FALSE,
     raised |-> FALSE, calls |-> NoCalls, warned |-> {}, second |-> FALSE,
     result |-> "-", carried_on |-> FALSE]

SyncInit ==
    /\ slocal \in FeatureSettings
    /\ sbare \in BOOLEAN
    /\ sdb \in GateRecords
    /\ slast = NoRun
    /\ sclean = FALSE

\* A call of sync_feature_gates_from_snap_to_cluster.
SyncRun ==
    /\ \E flt \in SyncFaults :
        \E r \in {sync_feature_gates_from_snap_to_cluster(slocal, sbare, sdb, flt)} :
        /\ slocal' = r.settings
        /\ sdb' = r.db
        /\ slast' = [entry |-> "function", fault |-> flt, before |-> sdb,
                     local_before |-> slocal, ran |-> TRUE,
                     raised |-> r.raised, calls |-> r.calls, warned |-> r.warned,
                     second |-> sclean, result |-> "-", carried_on |-> FALSE]
        /\ sclean' = (flt = NoSyncFault)
    /\ UNCHANGED sbare
    /\ UNCHANGED nonSyncVars

\* SyncFeatureGatesToCluster.run: COMPLETED whether or not the sync raised.
SyncFeatureGatesToClusterRun ==
    /\ \E flt \in SyncFaults :
        \E r \in {sync_feature_gates_from_snap_to_cluster(slocal, sbare, sdb, flt)} :
        /\ slocal' = r.settings
        /\ sdb' = r.db
        /\ slast' = [entry |-> "step", fault |-> flt, before |-> sdb,
                     local_before |-> slocal, ran |-> TRUE,
                     raised |-> FALSE, calls |-> r.calls, warned |-> r.warned,
                     second |-> sclean, result |-> "COMPLETED", carried_on |-> FALSE]
        /\ sclean' = (flt = NoSyncFault)
    /\ UNCHANGED sbare
    /\ UNCHANGED nonSyncVars

\* The configure hook: _sync_feature_gates_to_cluster makes the client and
\* calls the sync, or skips it when the client cannot be made; the hook goes on
\* to write the configuration unless an exception left the sync.
Configure ==
    /\ \E from_socket \in BOOLEAN :
        IF from_socket
        THEN \E flt \in SyncFaults :
             \E r \in {sync_feature_gates_from_snap_to_cluster(slocal, sbare, sdb, flt)} :
             /\ slocal' = r.settings
             /\ sdb' = r.db
             /\ slast' = [entry |-> "hook", fault |-> flt, before |-> sdb,
                          local_before |-> slocal, ran |-> TRUE,
                          raised |-> r.raised, calls |-> r.calls, warned |-> r.warned,
                          second |-> sclean, result |-> "-", carried_on |-> ~r.raised]
             /\ sclean' = (flt = NoSyncFault)
        ELSE /\ slast' = [NoRun EXCEPT !.entry = "hook", !.before = sdb,
                                       !.local_before = slocal,
                                       !.carried_on = TRUE]
             /\ UNCHANGED <<slocal, sdb, sclean>>
    /\ UNCHANGED sbare
    /\ UNCHANGED nonSyncVars

\* snap set: the user changes the local settings.
SnapSet ==
    /\ \E settings \in FeatureSettings :
        /\ settings # slocal
        /\ slocal' = settings
    /\ slast' = NoRun
    /\ sclean' = FALSE
    /\ UNCHANGED <<sbare, sdb>>
    /\ UNCHANGED nonSyncVars

SyncNext ==
    \/ SyncRun
    \/ SnapSet

SyncCallersNext ==
    \/ SyncFeatureGatesToClusterRun
    \/ Configure

(***************************************************************************)
(* SetOvnProviderStep under run_plan (steps/microovn.py, core/ovn.py)      *)
(***************************************************************************)
\* OvnProvider, and None for a provider that is not set.
OvnProvider == {"ovn-k8s", "microovn"}
NoProvider == "None"

DEFAULT_PROVIDER == "ovn-k8s"

\* The values the snap key ovn.provider may hold.
SnapProviderValues == {Unset, "", "ovn-k8s", "microovn", "invalid-provider"}

\* The snap and cluster sources as is_feature_gate_enabled sees them.
OvnEnv(gate) ==
    Env([k \in {"feature.microovn-sdn"} |-> gate],
        [k \in {"feature.microovn-sdn"} |-> "absent"], NotFound, TRUE, "None")

\* Mutant of get_config_from_snap: a value that is no provider falls back to the
\* default.
get_config_from_snap_swallows_invalid(gate, provider_value) ==
    IF is_feature_gate_enabled("feature.microovn-sdn", OvnEnv(gate)) # "True"
    THEN DEFAULT_PROVIDER
    ELSE IF provider_value = "microovn" THEN "microovn"
    ELSE DEFAULT_PROVIDER

\* get_config_from_snap(snap): the provider, or ValueError.
get_config_from_snap(gate, provider_value) ==
    IF is_feature_gate_enabled("feature.microovn-sdn", OvnEnv(gate)) # "True"
    THEN DEFAULT_PROVIDER
    ELSE IF provider_value \in {Unset, ""} THEN DEFAULT_PROVIDER
    ELSE IF provider_value \notin OvnProvider THEN ValueError
    ELSE IF provider_value = "microovn" THEN "microovn"
    ELSE DEFAULT_PROVIDER

\* OvnManager.get_provider(): the stored provider, the default when none is
\* stored.
get_provider(provider) ==
    IF provider = NoProvider THEN DEFAULT_PROVIDER ELSE provider

\* The message of a Result of the step.
OvnMessage(text) == <<0, text>>

\* Mutant of is_skip: a change of provider is let through after bootstrap.
is_skip_allows_change(snap_value, configured_provider, already_bootstrapped) ==
    IF snap_value = ValueError
    THEN [ret |-> "FAILED", message |-> OvnMessage("Invalid value"),
          wanted_provider |-> NoProvider]
    ELSE IF configured_provider = snap_value
    THEN [ret |-> "SKIPPED", message |-> NoMessage, wanted_provider |-> NoProvider]
    ELSE [ret |-> "COMPLETED", message |-> NoMessage, wanted_provider |-> snap_value]

\* is_skip: the Result and the wanted_provider it leaves on the step.
is_skip(snap_value, configured_provider, already_bootstrapped) ==
    IF snap_value = ValueError
    THEN [ret |-> "FAILED", message |-> OvnMessage("Invalid value"),
          wanted_provider |-> NoProvider]
    ELSE IF configured_provider = snap_value
    THEN [ret |-> "SKIPPED", message |-> NoMessage, wanted_provider |-> NoProvider]
    ELSE IF already_bootstrapped /\ configured_provider # snap_value
    THEN [ret |-> "FAILED",
          message |-> OvnMessage("Changing OVN provider is not supported."),
          wanted_provider |-> NoProvider]
    ELSE [ret |-> "COMPLETED", message |-> NoMessage, wanted_provider |-> snap_value]

\* is_skip has not been called on the step.
NoSkip ==
    [called |-> FALSE, snap_value |-> NoProvider, configured |-> NoProvider,
     bootstrapped |-> FALSE, ret |-> "-", message |-> NoMessage]

OvnInit ==
    /\ oprovider \in OvnProvider \cup {NoProvider}
    /\ oboot \in BOOLEAN
    /\ ogate \in {Unset, "true", "false"}
    /\ osnap \in SnapProviderValues
    /\ owanted = NoProvider
    /\ opc = "is_skip"
    /\ oskip = NoSkip
    /\ oran = "-"
    /\ oatboot = oprovider

\* run_plan calls is_skip on the step: SKIPPED and FAILED end the step, anything
\* else leads to run.
OvnIsSkip ==
    /\ opc = "is_skip"
    /\ LET snap_value == get_config_from_snap(ogate, osnap)
           r == is_skip(snap_value, oprovider, oboot)
       IN
       /\ owanted' = r.wanted_provider
       /\ oskip' = [called |-> TRUE, snap_value |-> snap_value, configured |-> oprovider,
                    bootstrapped |-> oboot, ret |-> r.ret, message |-> r.message]
       /\ opc' = IF r.ret \in {"SKIPPED", "FAILED"} THEN "done" ELSE "run"
    /\ UNCHANGED <<oprovider, oboot, ogate, osnap, oran, oatboot>>
    /\ UNCHANGED nonOvnVars

\* run_plan calls run: the wanted provider is written to the deployment
\* configuration.
OvnRun ==
    /\ opc = "run"
    /\ IF owanted = NoProvider
       THEN /\ oran' = "FAILED"
            /\ UNCHANGED oprovider
       ELSE /\ oprovider' = owanted
            /\ oran' = "COMPLETED"
    /\ opc' = "done"
    /\ UNCHANGED <<oboot, ogate, osnap, owanted, oskip, oatboot>>
    /\ UNCHANGED nonOvnVars

\* A later step of the bootstrap plan marks the cluster as bootstrapped.
MarkBootstrapped ==
    /\ opc = "done"
    /\ ~oboot
    /\ oboot' = TRUE
    /\ oatboot' = oprovider
    /\ UNCHANGED <<oprovider, ogate, osnap, owanted, opc, oskip, oran>>
    /\ UNCHANGED nonOvnVars

\* A later command builds a new step over a snap configuration the user may
\* have changed, and hands it to run_plan.
NewOvnStep ==
    /\ opc = "done"
    /\ ogate' \in {Unset, "true", "false"}
    /\ osnap' \in SnapProviderValues
    /\ owanted' = NoProvider
    /\ opc' = "is_skip"
    /\ oskip' = NoSkip
    /\ oran' = "-"
    /\ UNCHANGED <<oprovider, oboot, oatboot>>
    /\ UNCHANGED nonOvnVars

OvnNext ==
    \/ OvnIsSkip
    \/ OvnRun
    \/ MarkBootstrapped
    \/ NewOvnStep

(***************************************************************************)
(* Capability discovery (storage/manager.py, feature_manager.py)           *)
(***************************************************************************)
\* The managers a process constructs.
MaxManagers == 2
Managers == 1..MaxManagers

\* backend.py directories, feature classes and feature group classes that a
\* scan can find.
BackendDirs == {"x", "y"}
FeatureClasses == {"f"}
GroupClasses == {"g"}

\* A cache: the number of the instance held for each identifier, 0 for none.
EmptyCache(ids) == [i \in ids |-> 0]

\* `not self._backends`, `not self._features`, `not self._groups`
IsEmptyDict(cache) == \A i \in DOMAIN cache : cache[i] = 0

\* The order in which a scan meets the identifiers.
ScanOrder == <<"f", "g", "x", "y">>
ScanIndex(i) == CHOOSE k \in 1..Len(ScanOrder) : ScanOrder[k] = i

\* The position of identifier i among the found ones, in the order of the scan.
ScanRank(i, found) == Cardinality({j \in found : ScanIndex(j) < ScanIndex(i)}) + 1

\* One pass over what is found: a new instance of every class found is put
\* under its identifier, created being the number of instances made before.
Instantiate(cache, found, created) ==
    [i \in DOMAIN cache |->
        IF i \in found THEN created + ScanRank(i, found) ELSE cache[i]]

\* _load_backends on a manager whose self._loaded reads as `loaded`: "False" is
\* the class attribute, "True" the attribute the method sets on the instance.
_load_backends(loaded, backends, found, created) ==
    IF loaded = "True"
    THEN [loaded |-> "True", backends |-> backends, scanned |-> FALSE]
    ELSE [loaded |-> "True", backends |-> Instantiate(backends, found, created),
          scanned |-> TRUE]

\* The first instance cached for each identifier.
FirstOf(first, cache) ==
    [i \in DOMAIN cache |-> IF first[i] = 0 THEN cache[i] ELSE first[i]]

DiscoveryInit ==
    /\ dfound \in SUBSET BackendDirs
    /\ dbackends = EmptyCache(BackendDirs)
    /\ dloaded = [m \in Managers |-> "-"]
    /\ dscans = 0
    /\ dcreated = 0
    /\ dfirst = EmptyCache(BackendDirs)
    /\ dret = "-"
    /\ ffound \in SUBSET FeatureClasses
    /\ gfound \in SUBSET GroupClasses
    /\ ffeatures = EmptyCache(FeatureClasses)
    /\ fgroups = EmptyCache(GroupClasses)
    /\ fmanagers = 0
    /\ fscans = 0
    /\ fcreated = 0
    /\ ffirst = EmptyCache(FeatureClasses)

\* The effect of self._load_backends() on manager m.
Load(m, loaded) ==
    \E r \in {_load_backends(loaded, dbackends, dfound, dcreated)} :
        /\ dloaded' = [dloaded EXCEPT ![m] = r.loaded]
        /\ dbackends' = r.backends
        /\ dscans' = IF r.scanned THEN dscans + 1 ELSE dscans
        /\ dcreated' = IF r.scanned THEN dcreated + Cardinality(dfound) ELSE dcreated
        /\ dfirst' = FirstOf(dfirst, r.backends)

\* StorageBackendManager(): loads when the shared dict is empty.
NewStorageBackendManager ==
    \E m \in Managers :
        /\ dloaded[m] = "-"
        /\ \A k \in Managers : k < m => dloaded[k] # "-"
        /\ IF IsEmptyDict(dbackends)
           THEN Load(m, "False")
           ELSE /\ dloaded' = [dloaded EXCEPT ![m] = "False"]
                /\ UNCHANGED <<dbackends, dscans, dcreated, dfirst>>
        /\ UNCHANGED <<dfound, dret, ffound, gfound, ffeatures, fgroups, fmanagers,
                       fscans, fcreated, ffirst>>
        /\ UNCHANGED nonDiscoveryVars

\* manager.get_backend(name)
GetBackend ==
    \E m \in Managers, name \in BackendDirs :
        /\ dloaded[m] # "-"
        /\ Load(m, dloaded[m])
        /\ dret' = IF dbackends'[name] = 0 THEN ValueError ELSE "instance"
        /\ UNCHANGED <<dfound, ffound, gfound, ffeatures, fgroups, fmanagers,
                       fscans, fcreated, ffirst>>
        /\ UNCHANGED nonDiscoveryVars

\* manager.register_cli_commands(storage_group, deployment): its first
\* statement.
RegisterCliCommandsLoad ==
    \E m \in Managers :
        /\ dloaded[m] # "-"
        /\ Load(m, dloaded[m])
        /\ dret' = "registered"
        /\ UNCHANGED <<dfound, ffound, gfound, ffeatures, fgroups, fmanagers,
                       fscans, fcreated, ffirst>>
        /\ UNCHANGED nonDiscoveryVars

\* FeatureManager(): loads when either shared dict is empty, and updates both
\* with new instances of every group and feature.
NewFeatureManager ==
    /\ fmanagers < MaxManagers
    /\ fmanagers' = fmanagers + 1
    /\ IF IsEmptyDict(ffeatures) \/ IsEmptyDict(fgroups)
       THEN /\ fgroups' = Instantiate(fgroups, gfound, fcreated)
            /\ ffeatures' = Instantiate(ffeatures, ffound, fcreated + Cardinality(gfound))
            /\ fscans' = fscans + 1
            /\ fcreated' = fcreated + Cardinality(gfound) + Cardinality(ffound)
            /\ ffirst' = FirstOf(ffirst, ffeatures')
       ELSE UNCHANGED <<fgroups, ffeatures, fscans, fcreated, ffirst>>
    /\ UNCHANGED <<dfound, dbackends, dloaded, dscans, dcreated, dfirst, dret,
                   ffound, gfound>>
    /\ UNCHANGED nonDiscoveryVars

DiscoveryNext ==
    \/ NewStorageBackendManager
    \/ GetBackend
    \/ RegisterCliCommandsLoad
    \/ NewFeatureManager

(***************************************************************************)
(* Registration of capabilities (feature_manager.py, storage/manager.py,   *)
(* core/common.py RiskLevel)                                               *)
(***************************************************************************)
\* RiskLevel.__ordering__
RiskOrdering == <<"stable", "candidate", "beta", "edge">>
RiskLevel == {RiskOrdering[k] : k \in 1..Len(RiskOrdering)}

\* The values the snap key deployment.risk may hold.
SnapRiskValues == RiskLevel \cup {Unset, "unknown"}

\* RiskLevel.__lt__: the first element of the ordering that is one of the two
\* decides.
RiskLt(self, other) ==
    IF self = other THEN FALSE
    ELSE LET hits == {k \in 1..Len(RiskOrdering) : RiskOrdering[k] \in {self, other}} IN
         IF hits = {} THEN FALSE
         ELSE RiskOrdering[CHOOSE k \in hits : \A j \in hits : k <= j] = self

\* Mutant of RiskGt: the comparison is turned round.
RiskGtReversed(self, other) == RiskLt(self, other)

\* RiskLevel.__gt__
RiskGt(self, other) == ~RiskLt(self, other) /\ self # other

\* infer_risk(snap)
infer_risk(risk) ==
    IF risk = Unset THEN "stable"
    ELSE IF risk = "candidate" THEN "candidate"
    ELSE IF risk = "beta" THEN "beta"
    ELSE IF risk = "edge" THEN "edge"
    ELSE "stable"

\* What deployment.get_client() does: it returns a client or raises.
GetClientOutcomes ==
    {"client", "SunbeamException", "ValueError", "ClusterServiceUnavailableException"}

\* Whether ClusterServiceUnavailableException is a SunbeamException.
UnavailableIsSunbeamException == BOOLEAN

\* isinstance(exception, one of classes)
IsInstance(exception, classes, unavailable_is_sunbeam) ==
    \/ exception \in classes
    \/ /\ exception = "ClusterServiceUnavailableException"
       /\ unavailable_is_sunbeam
       /\ "SunbeamException" \in classes

\* What feature.is_enabled(client) does.
IsEnabledOutcomes == {"True", "False", "AttributeError", "SunbeamException"}

\* What the capability's own register function does: it attaches its commands,
\* or raises an exception with a message.
AttachOutcomes ==
    {"attached", "ValueError: Clusterd address", "SunbeamException: other"}

\* The environments of a registration: the same snap value and cluster record
\* under every gate key.
RegisterEnvs ==
    {Env([k \in GateKeys |-> v], [k \in GateKeys |-> g], list, up, flt) :
        v \in SnapValues \cup {Unset}, g \in {"absent", "enabled", "disabled"},
        list \in {NotFound, JsonDumps(<<"ceph">>)}, up \in BOOLEAN, flt \in Faults}

\* The capabilities registered: a feature and a storage backend.
RegisterCaps(kind) ==
    {cap \in Caps : IF kind = "feature"
                    THEN cap.name # NoAttr /\ cap.backend_type = NoAttr
                    ELSE cap.backend_type # NoAttr /\ cap.name = NoAttr}

\* What a registration did with one capability.
Registered(kind, cap, risk, snap_risk, get_client, gate_client, gate, outcome,
           enabled, attach) ==
    [called |-> TRUE, kind |-> kind, cap |-> cap, risk |-> risk,
     snap_risk |-> snap_risk, get_client |-> get_client, gate_client |-> gate_client,
     gate |-> gate, outcome |-> outcome, enabled |-> enabled, attach |-> attach]

\* No registration has run.
NoRegistration ==
    [called |-> FALSE, kind |-> "-", cap |-> [backend_type |-> NoAttr, name |-> NoAttr,
     generally_available |-> FALSE], risk |-> "-", snap_risk |-> "-",
     get_client |-> "-", gate_client |-> "-", gate |-> "-", outcome |-> "-",
     enabled |-> "-", attach |-> "-"]

RegisterInit ==
    /\ regEnv \in RegisterEnvs
    /\ regLast = NoRegistration

\* FeatureManager.register(cli, deployment) on one feature: the risk check, the
\* client for the gate check, the gate check, is_enabled and feature.register.
FeatureManagerRegister ==
    /\ ~regLast.called
    /\ \E cap \in RegisterCaps("feature"), risk \in RiskLevel, snap_risk \in SnapRiskValues :
        IF RiskGt(risk, infer_risk(snap_risk))
        THEN regLast' = Registered("feature", cap, risk, snap_risk, "-", "-", "-",
                                   "omitted", "-", "-")
        ELSE \E get_client \in GetClientOutcomes, sub \in UnavailableIsSunbeamException :
            IF get_client # "client" /\ ~IsInstance(get_client, {"SunbeamException"}, sub)
            THEN regLast' = Registered("feature", cap, risk, snap_risk, get_client, "-",
                                       "-", get_client, "-", "-")
            ELSE \E gate \in {check_gated(cap, get_client = "client", TRUE, "None", regEnv).ret} :
                LET gate_client == IF get_client = "client" THEN "client" ELSE "None" IN
                IF gate = "True"
                THEN regLast' = Registered("feature", cap, risk, snap_risk, get_client,
                                           gate_client, gate, "omitted", "-", "-")
                ELSE IF gate # "False"
                THEN regLast' = Registered("feature", cap, risk, snap_risk, get_client,
                                           gate_client, gate, gate, "-", "-")
                ELSE \E is_enabled \in IsEnabledOutcomes, attach \in AttachOutcomes :
                    LET enabled == BoolStr(get_client = "client" /\ is_enabled = "True")
                        outcome == IF attach = "attached" THEN "attached"
                                   ELSE IF attach = "ValueError: Clusterd address"
                                   THEN "omitted"
                                   ELSE "SunbeamException"
                    IN regLast' = Registered("feature", cap, risk, snap_risk, get_client,
                                             gate_client, gate, outcome, enabled, attach)
    /\ UNCHANGED regEnv
    /\ UNCHANGED nonRegisterVars

\* StorageBackendManager.register_cli_commands(storage_group, deployment) on one
\* backend: the client, check_enabled and the backend's own registration.
StorageRegisterCliCommands ==
    /\ ~regLast.called
    /\ \E cap \in RegisterCaps("storage"), snap_risk \in SnapRiskValues,
          get_client \in GetClientOutcomes, sub \in UnavailableIsSunbeamException :
        IF /\ get_client # "client"
           /\ ~IsInstance(get_client, {"SunbeamException", "ValueError"}, sub)
        THEN regLast' = Registered("storage", cap, "-", snap_risk, get_client, "-", "-",
                                   get_client, "-", "-")
        ELSE \E gate \in {check_gated(cap, get_client = "client", TRUE,
                                      "StorageBackendsEnabled", regEnv).ret} :
            LET gate_client == IF get_client = "client" THEN "client" ELSE "None" IN
            IF gate = "True"
            THEN regLast' = Registered("storage", cap, "-", snap_risk, get_client,
                                       gate_client, gate, "omitted", "-", "-")
            ELSE IF gate # "False"
            THEN regLast' = Registered("storage", cap, "-", snap_risk, get_client,
                                       gate_client, gate, gate, "-", "-")
            ELSE \E attach \in AttachOutcomes :
                regLast' = Registered("storage", cap, "-", snap_risk, get_client,
                                      gate_client, gate,
                                      IF attach = "attached" THEN "attached"
                                      ELSE IF attach = "ValueError: Clusterd address"
                                      THEN "ValueError" ELSE "SunbeamException",
                                      "-", attach)
    /\ UNCHANGED regEnv
    /\ UNCHANGED nonRegisterVars

RegisterNext ==
    \/ FeatureManagerRegister
    \/ StorageRegisterCliCommands

(***************************************************************************)
(* FeatureManager.update_features (feature_manager.py)                     *)
(***************************************************************************)
\* The features of the manager, in the order of its dict.
UpdateOrder == <<"a", "b">>
UpdateNames == {UpdateOrder[k] : k \in 1..Len(UpdateOrder)}

\* Versions of a feature, and the version key missing from the persisted
\* feature info.
FeatureVersions == {"0.0.1", "0.0.2"}
NoVersion == "<no version>"

\* upgrade_hook of a feature: not defined, taking upgrade_release, or taking
\* the deployment only (a TypeError on the keyword).
UpgradeHooks == {"none", "upgrade_release", "deployment only"}

\* A feature: whether is_enabled reports it enabled, its version, the version
\* persisted for it and its hook.
UpdateFeatures ==
    [enabled : BOOLEAN, version : FeatureVersions,
     persisted : FeatureVersions \cup {NoVersion, "0.0.0"}, hook : UpgradeHooks]

\* has_feature_version_changed(deployment, feature)
has_feature_version_changed(feature) ==
    ~((IF feature.persisted = NoVersion THEN "0.0.0" ELSE feature.persisted)
         = feature.version)

\* enabled_features(deployment): the names of the enabled features, in order.
RECURSIVE enabled_features(_, _)
enabled_features(features, k) ==
    IF k > Len(UpdateOrder) THEN <<>>
    ELSE (IF features[UpdateOrder[k]].enabled THEN <<UpdateOrder[k]>> ELSE <<>>)
            \o enabled_features(features, k + 1)

\* One call of an upgrade hook.
HookCall(name, arguments, ret) == [feature |-> name, arguments |-> arguments, ret |-> ret]

\* The hook calls update_features makes for one enabled feature.
HookCallsOf(name, feature) ==
    IF feature.hook = "none" THEN <<>>
    ELSE IF feature.hook = "upgrade_release"
    THEN <<HookCall(name, "deployment, upgrade_release", "None")>>
    ELSE <<HookCall(name, "deployment, upgrade_release", "TypeError"),
           HookCall(name, "deployment", "None")>>

\* update_features(deployment, upgrade_release): the hook calls it makes.
RECURSIVE update_features(_, _)
update_features(features, names) ==
    IF names = <<>> THEN <<>>
    ELSE HookCallsOf(names[1], features[names[1]])
            \o update_features(features, Tail(names))

UpdateInit ==
    /\ vfeatures \in [UpdateNames -> UpdateFeatures]
    /\ vcalls = <<>>
    /\ vdone = FALSE

\* The upgrade step calls FeatureManager.update_features.
UpdateFeaturesRun ==
    /\ ~vdone
    /\ vcalls' = update_features(vfeatures, enabled_features(vfeatures, 1))
    /\ vdone' = TRUE
    /\ UNCHANGED vfeatures
    /\ UNCHANGED nonUpdateVars

UpdateNext == UpdateFeaturesRun

(***************************************************************************)
(* enable_backend called repeatedly and concurrently (storage/base.py)     *)
(***************************************************************************)
\* Most enable_backend calls one process makes.
MaxEnableCalls == 3

\* The backend types that are enabled, and the backend object of a type.
EnableTypes == {"ceph", "lvm"}
BackendOf(type) ==
    [backend_type |-> type, name |-> NoAttr, generally_available |-> FALSE]

\* The states the StorageBackendsEnabled item may be in: missing, holding text
\* that is no JSON document, or holding a list of backend types, none twice.
EnableItems ==
    {NotFound, NotJSON, JsonDumps(<<>>)}
        \cup {JsonDumps(<<a>>) : a \in EnableTypes}
        \cup {JsonDumps(<<p[1], p[2]>>) : p \in {q \in EnableTypes \X EnableTypes : q[1] # q[2]}}

\* The cluster as enable_backend finds it.
EnableEnv(item, up) ==
    Env([k \in GateKeys |-> Unset], [k \in GateKeys |-> "absent"], item, up, "None")

\* The invocations running against one cluster database, and the backend type
\* each enables.
EnableProcs == {1, 2}
EnableTypeOf(p) == IF p = 1 THEN "ceph" ELSE "lvm"

\* The first half of enable_backend: get_config and json.loads, with
\* ConfigItemNotFoundException giving the empty list.
enable_backend_read(env) ==
    LET item == ClusterGetConfig(env, ENABLED_BACKENDS_CONFIG_KEY)
        decoded == JsonLoads(item.value)
    IN
    IF item.raised = "ConfigItemNotFound" THEN [ret |-> "None", enabled_backends |-> <<>>]
    ELSE IF item.raised # "None" THEN [ret |-> item.raised, enabled_backends |-> <<>>]
    ELSE [ret |-> decoded.raised, enabled_backends |-> decoded.value]

\* The second half of enable_backend: the list read is extended and written
\* back, unless it holds the backend type.
enable_backend_write(cap, enabled_backends, item) ==
    IF InList(cap.backend_type, enabled_backends)
    THEN [list |-> item, wrote |-> FALSE]
    ELSE [list |-> JsonDumps(Append(enabled_backends, cap.backend_type)),
          wrote |-> TRUE]

\* One finished call of enable_backend.
EnableCall(type, before, out) ==
    [backend |-> type, before |-> before, after |-> out.list, ret |-> out.ret,
     wrote |-> out.wrote]

EnableInit ==
    /\ elist \in EnableItems
    /\ eup \in BOOLEAN
    /\ ecalls = <<>>
    /\ epc = [p \in EnableProcs |-> "start"]
    /\ elocal = [p \in EnableProcs |-> <<>>]

\* One process calls enable_backend on a backend, with nothing else touching the
\* cluster database meanwhile.
EnableBackendCall ==
    /\ Len(ecalls) < MaxEnableCalls
    /\ \E type \in EnableTypes :
        \E out \in {enable_backend(BackendOf(type), EnableEnv(elist, eup))} :
            /\ ecalls' = Append(ecalls, EnableCall(type, elist, out))
            /\ elist' = out.list
    /\ UNCHANGED <<eup, epc, elocal>>
    /\ UNCHANGED nonEnableVars

\* The cluster service goes away or comes back between two cluster calls.
ClusterFlip ==
    /\ Len(ecalls) < MaxEnableCalls
    /\ eup' = ~eup
    /\ UNCHANGED <<elist, ecalls, epc, elocal>>
    /\ UNCHANGED nonEnableVars

EnableNext ==
    \/ EnableBackendCall
    \/ ClusterFlip

\* Invocation p of enable_backend reads the list.
EnableRead ==
    \E p \in EnableProcs :
        /\ epc[p] = "start"
        /\ \E r \in {enable_backend_read(EnableEnv(elist, eup))} :
            /\ epc' = [epc EXCEPT ![p] = IF r.ret = "None" THEN "read" ELSE "raised"]
            /\ elocal' = [elocal EXCEPT ![p] = r.enabled_backends]
        /\ UNCHANGED <<elist, eup, ecalls>>
        /\ UNCHANGED nonEnableVars

\* Invocation p appends its backend type to the list it read and writes the
\* list back, which raises when the cluster service does not answer, or returns
\* when the list it read holds the type.
EnableWrite ==
    \E p \in EnableProcs :
        /\ epc[p] = "read"
        /\ \E w \in {enable_backend_write(BackendOf(EnableTypeOf(p)), elocal[p], elist)} :
            IF w.wrote /\ ~eup
            THEN /\ epc' = [epc EXCEPT ![p] = "raised"]
                 /\ UNCHANGED <<elist, elocal>>
            ELSE /\ elist' = w.list
                 /\ elocal' = [elocal EXCEPT ![p] =
                                  IF w.wrote THEN w.list.items ELSE elocal[p]]
                 /\ epc' = [epc EXCEPT ![p] = "done"]
        /\ UNCHANGED <<eup, ecalls>>
        /\ UNCHANGED nonEnableVars

EnableRaceNext ==
    \/ EnableRead
    \/ EnableWrite
    \/ ClusterFlip

(***************************************************************************)
(* Specifications                                                          *)
(***************************************************************************)
\* No retrying call is running.
RetryIdle ==
    /\ tlockSub = FALSE
    /\ tlockId = "none"
    /\ tpc = "idle"
    /\ telapsed = 0
    /\ tattempts = <<>>
    /\ tresult = NoResult

\* No capability is being instantiated.
KeyIdle ==
    /\ kcap = NoCheck.cap
    /\ kpc = "idle"
    /\ kret = "-"
    /\ krequests = 0

\* No command is parsing roles.
RoleIdle ==
    /\ rvalue = <<>>
    /\ rsnap = Unset
    /\ rpc = "idle"
    /\ rroles = NoRoles
    /\ rerr = NoRoleError
    /\ rcmd = "-"

\* The plan runner is not running.
PlanIdle ==
    /\ plan = <<>>
    /\ no_hint = TRUE
    /\ no_raise = FALSE
    /\ idx = 0
    /\ pc = "idle"
    /\ results = EmptyDict
    /\ live = FALSE
    /\ exc = NoExc
    /\ calls = <<>>

\* No gate is resolved.
GateIdle ==
    /\ snapConfig = [k \in GateKeys |-> Unset]
    /\ dbGates = [k \in GateKeys |-> "absent"]
    /\ dbEnabledList = NotFound
    /\ clusterUp = FALSE
    /\ fault = "None"
    /\ lastCheck = NoCheck
    /\ lastGate = NoGate

\* No storage backend operation has run.
StorageIdle ==
    /\ lastEnable = NoEnable
    /\ lastEnabled = NoEnabled

\* No status worker is running.
StatusIdle ==
    /\ uapps = <<>>
    /\ ustatus = FALSE
    /\ uqueue = <<>>
    /\ ustop = FALSE
    /\ upc = "idle"
    /\ ucount = <<>>
    /\ unb = 0
    /\ udisplay = NoDisplay
    /\ uproduced = 0
    /\ uprod = "idle"
    /\ urecent = <<>>
    /\ upat = 0
    /\ uafter = FALSE
    /\ utaken = 0
    /\ uacked = 0

\* No sync is running.
SyncIdle ==
    /\ slocal = NoSettings
    /\ sbare = FALSE
    /\ sdb = [k \in SyncKeys |-> "absent"]
    /\ slast = NoRun
    /\ sclean = FALSE

\* No SetOvnProviderStep is in use.
OvnIdle ==
    /\ oprovider = NoProvider
    /\ oboot = FALSE
    /\ ogate = Unset
    /\ osnap = Unset
    /\ owanted = NoProvider
    /\ opc = "idle"
    /\ oskip = NoSkip
    /\ oran = "-"
    /\ oatboot = NoProvider

\* No manager has been constructed.
DiscoveryIdle ==
    /\ dfound = {}
    /\ dbackends = EmptyCache(BackendDirs)
    /\ dloaded = [m \in Managers |-> "-"]
    /\ dscans = 0
    /\ dcreated = 0
    /\ dfirst = EmptyCache(BackendDirs)
    /\ dret = "-"
    /\ ffound = {}
    /\ gfound = {}
    /\ ffeatures = EmptyCache(FeatureClasses)
    /\ fgroups = EmptyCache(GroupClasses)
    /\ fmanagers = 0
    /\ fscans = 0
    /\ fcreated = 0
    /\ ffirst = EmptyCache(FeatureClasses)

\* No registration runs.
RegisterIdle ==
    /\ regEnv = Env([k \in GateKeys |-> Unset], [k \in GateKeys |-> "absent"],
                    NotFound, TRUE, "None")
    /\ regLast = NoRegistration

\* update_features does not run.
UpdateIdle ==
    /\ vfeatures = [n \in UpdateNames |->
                       [enabled |-> FALSE, version |-> "0.0.1",
                        persisted |-> NoVersion, hook |-> "none"]]
    /\ vcalls = <<>>
    /\ vdone = FALSE

\* enable_backend is not called.
EnableIdle ==
    /\ elist = NotFound
    /\ eup = TRUE
    /\ ecalls = <<>>
    /\ epc = [p \in EnableProcs |-> "idle"]
    /\ elocal = [p \in EnableProcs |-> <<>>]

\* One run of run_plan on any plan, with any outcome of every step method.
InitPlan == PlanInit /\ GateIdle /\ StorageIdle /\ RoleIdle /\ KeyIdle /\ RetryIdle /\ StatusIdle /\ SyncIdle /\ OvnIdle /\ DiscoveryIdle /\ RegisterIdle /\ UpdateIdle /\ EnableIdle

SpecPlan == InitPlan /\ [][PlanNext]_vars

\* Resolutions of any capability's gate over any state of the sources.
InitGate == GateInit /\ PlanIdle /\ StorageIdle /\ RoleIdle /\ KeyIdle /\ RetryIdle /\ StatusIdle /\ SyncIdle /\ OvnIdle /\ DiscoveryIdle /\ RegisterIdle /\ UpdateIdle /\ EnableIdle

SpecGate == InitGate /\ [][GateNext]_vars

\* Both entry points of gate resolution, each called once in either order on
\* the same sources, every lookup answering.
InitEntry == GateInit /\ PlanIdle /\ StorageIdle /\ RoleIdle /\ KeyIdle /\ RetryIdle /\ StatusIdle /\ SyncIdle /\ OvnIdle /\ DiscoveryIdle /\ RegisterIdle /\ UpdateIdle /\ EnableIdle /\ fault = "None"

SpecEntry == InitEntry /\ [][EntryNext]_vars

\* enable_backend and check_enabled of storage backends, each called once in
\* either order, over sources in any state.
InitStorage == GateInit /\ PlanIdle /\ StorageIdle /\ RoleIdle /\ KeyIdle /\ RetryIdle /\ StatusIdle /\ SyncIdle /\ OvnIdle /\ DiscoveryIdle /\ RegisterIdle /\ UpdateIdle /\ EnableIdle

SpecStorage == InitStorage /\ [][StorageNext]_vars

\* bootstrap or join invoked with any --role values and any local gate value.
InitRole == RoleInit /\ PlanIdle /\ GateIdle /\ StorageIdle /\ KeyIdle /\ RetryIdle /\ StatusIdle /\ SyncIdle /\ OvnIdle /\ DiscoveryIdle /\ RegisterIdle /\ UpdateIdle /\ EnableIdle

SpecRole == InitRole /\ [][RoleNext]_vars

\* A capability class of any declaration is instantiated and its gate key read.
InitKey == KeyInit /\ PlanIdle /\ GateIdle /\ StorageIdle /\ RoleIdle /\ RetryIdle /\ StatusIdle /\ SyncIdle /\ OvnIdle /\ DiscoveryIdle /\ RegisterIdle /\ UpdateIdle /\ EnableIdle

SpecKey == InitKey /\ [][KeyNext]_vars

\* One call of the retrying run, the adapter and the wait behaving in any way
\* at every attempt.
InitRetry == RetryInit /\ PlanIdle /\ GateIdle /\ StorageIdle /\ RoleIdle /\ KeyIdle /\ StatusIdle /\ SyncIdle /\ OvnIdle /\ DiscoveryIdle /\ RegisterIdle /\ UpdateIdle /\ EnableIdle

SpecRetry == InitRetry /\ [][RetryNext]_vars

\* One status worker started by update_status_background, the step producing
\* readiness events and signalling the stop at any moment.
InitStatus == StatusInit /\ PlanIdle /\ GateIdle /\ StorageIdle /\ RoleIdle /\ KeyIdle /\ RetryIdle /\ SyncIdle /\ OvnIdle /\ DiscoveryIdle /\ RegisterIdle /\ UpdateIdle /\ EnableIdle

SpecStatus == InitStatus /\ [][StatusNext]_vars

\* The most events the producer puts on the queue under the fair scheduler.
MaxLiveEvents == 5

\* The producer of the fair specification: Put, up to MaxLiveEvents events.
PutLive ==
    /\ uprod = "running"
    /\ uproduced < MaxLiveEvents
    /\ \E ev \in StatusEvents(uapps) :
        IF Len(uqueue) < QueueMax
        THEN /\ uqueue' = Append(uqueue, ev)
             /\ uproduced' = uproduced + 1
             /\ uprod' = uprod
        ELSE /\ uprod' = "full"
             /\ UNCHANGED <<uqueue, uproduced>>
    /\ UNCHANGED <<uapps, ustatus, ustop, upc, ucount, unb, udisplay, urecent, upat,
                   uafter, utaken, uacked>>
    /\ UNCHANGED nonStatusVars

StatusLiveNext ==
    \/ WorkerStart
    \/ WorkerLoop
    \/ WorkerGet
    \/ WorkerEmpty
    \/ PutLive
    \/ PutResume
    \/ stop

\* The same under a fair scheduler: the worker thread, when it can take a step,
\* eventually takes it; queue.get returns an event or times out.
StatusFairness ==
    /\ WF_vars(WorkerStart)
    /\ WF_vars(WorkerLoop)
    /\ WF_vars(WorkerGet)
    /\ WF_vars(WorkerEmpty)

InitStatusLive == StatusInit /\ PlanIdle /\ GateIdle /\ StorageIdle /\ RoleIdle /\ KeyIdle /\ RetryIdle /\ SyncIdle /\ OvnIdle /\ DiscoveryIdle /\ RegisterIdle /\ UpdateIdle /\ EnableIdle

SpecStatusLive == InitStatusLive /\ [][StatusLiveNext]_vars /\ StatusFairness

\* Runs of the sync with changes of the local settings in between.
InitSync == SyncInit /\ PlanIdle /\ GateIdle /\ StorageIdle /\ RoleIdle /\ KeyIdle /\ RetryIdle /\ StatusIdle /\ OvnIdle /\ DiscoveryIdle /\ RegisterIdle /\ UpdateIdle /\ EnableIdle

SpecSync == InitSync /\ [][SyncNext]_vars

\* Runs of the sync as a plan step and from the configure hook.
InitSyncCallers == SyncInit /\ PlanIdle /\ GateIdle /\ StorageIdle /\ RoleIdle /\ KeyIdle /\ RetryIdle /\ StatusIdle /\ OvnIdle /\ DiscoveryIdle /\ RegisterIdle /\ UpdateIdle /\ EnableIdle

SpecSyncCallers == InitSyncCallers /\ [][SyncCallersNext]_vars

\* SetOvnProviderStep handed to run_plan, before and after the cluster is
\* bootstrapped, over any snap configuration.
InitOvn == OvnInit /\ PlanIdle /\ GateIdle /\ StorageIdle /\ RoleIdle /\ KeyIdle /\ RetryIdle /\ StatusIdle /\ SyncIdle /\ DiscoveryIdle /\ RegisterIdle /\ UpdateIdle /\ EnableIdle

SpecOvn == InitOvn /\ [][OvnNext]_vars

\* One process constructing managers and using them, over any content of the
\* backends and features directories.
InitDiscovery == DiscoveryInit /\ PlanIdle /\ GateIdle /\ StorageIdle /\ RoleIdle /\ KeyIdle /\ RetryIdle /\ StatusIdle /\ SyncIdle /\ OvnIdle /\ RegisterIdle /\ UpdateIdle /\ EnableIdle

SpecDiscovery == InitDiscovery /\ [][DiscoveryNext]_vars

\* One registration of one capability, a feature or a storage backend, over any
\* state of the sources and any outcome of the calls made on the deployment and
\* on the capability.
InitRegister == RegisterInit /\ PlanIdle /\ GateIdle /\ StorageIdle /\ RoleIdle /\ KeyIdle /\ RetryIdle /\ StatusIdle /\ SyncIdle /\ OvnIdle /\ DiscoveryIdle /\ UpdateIdle /\ EnableIdle

SpecRegister == InitRegister /\ [][RegisterNext]_vars

\* One run of update_features over features in any state.
InitUpdate == UpdateInit /\ PlanIdle /\ GateIdle /\ StorageIdle /\ RoleIdle /\ KeyIdle /\ RetryIdle /\ StatusIdle /\ SyncIdle /\ OvnIdle /\ DiscoveryIdle /\ RegisterIdle /\ EnableIdle

SpecUpdate == InitUpdate /\ [][UpdateNext]_vars

\* One process calling enable_backend a number of times.
InitEnable == EnableInit /\ PlanIdle /\ GateIdle /\ StorageIdle /\ RoleIdle /\ KeyIdle /\ RetryIdle /\ StatusIdle /\ SyncIdle /\ OvnIdle /\ DiscoveryIdle /\ RegisterIdle /\ UpdateIdle

SpecEnable == InitEnable /\ [][EnableNext]_vars

\* Two invocations of enable_backend, for different backend types, interleaved
\* at their cluster calls.
InitEnableRace == EnableInit /\ PlanIdle /\ GateIdle /\ StorageIdle /\ RoleIdle /\ KeyIdle /\ RetryIdle /\ StatusIdle /\ SyncIdle /\ OvnIdle /\ DiscoveryIdle /\ RegisterIdle /\ UpdateIdle

SpecEnableRace == InitEnableRace /\ [][EnableRaceNext]_vars

(***************************************************************************)
(* Properties of run_plan (SpecPlan)                                       *)
(***************************************************************************)
Calls == 1..Len(calls)

\* Call k is method `method` returning (or raising) `ret`.
IsCall(k, method, ret) == calls[k].call = method /\ calls[k].ret = ret

\* The Result that call k returned.
ResultOfCall(k) == Result(calls[k].ret, Message(calls[k].step, calls[k].call))

\* Call k returned a Result that the runner is to record for its step: a skip, a
\* failed skip check in best-effort mode, or whatever run returned.
Recorded(k) ==
    \/ IsCall(k, "is_skip", "SKIPPED")
    \/ IsCall(k, "is_skip", "FAILED") /\ no_raise
    \/ calls[k].call = "run" /\ calls[k].ret \in ResultType

\* No call has been made on a step after step i.
NoLaterStepInvoked(i) == \A j \in Calls : calls[j].step <= i

\* run was never called on step i.
RunNeverCalled(i) == \A j \in Calls : ~(calls[j].call = "run" /\ calls[j].step = i)

\* C1: with no_raise=False, once a step's run has returned FAILED, run_plan has
\* raised ClickException carrying that Result's message, that call is the last
\* call made on any step, and no later step has had any method invoked.
C1_RunFailedHaltsPlan ==
    \A k \in Calls :
        (IsCall(k, "run", "FAILED") /\ ~no_raise) =>
            /\ pc = "raised"
            /\ exc = ClickException(Message(calls[k].step, "run"))
            /\ k = Len(calls)
            /\ NoLaterStepInvoked(calls[k].step)

\* C1 witness: a plan of three steps whose first step's run returned FAILED with
\* no_raise=False.
C1_Witness ==
    /\ Len(plan) = 3
    /\ ~no_raise
    /\ \E k \in Calls : IsCall(k, "run", "FAILED") /\ calls[k].step = 1
    /\ pc = "raised"

\* C2: when a step's is_skip has returned SKIPPED, run is never called on that
\* step, the skip Result is recorded under the step's class name (until a later
\* step of the same class is reached), no exception is raised, and the next call
\* made on any step is has_prompts of the next step of the plan.
C2_SkippedNeverRuns ==
    \A k \in Calls :
        IsCall(k, "is_skip", "SKIPPED") =>
            LET i == calls[k].step IN
            /\ RunNeverCalled(i)
            /\ (\A j \in Calls : j > k => plan[calls[j].step] # plan[i])
                  => /\ plan[i] \in DOMAIN results
                     /\ results[plan[i]] = Result("SKIPPED", Message(i, "is_skip"))
            /\ k = Len(calls) =>
                  /\ exc = NoExc
                  /\ \/ pc = "for" /\ idx = i
                     \/ pc = "has_prompts" /\ idx = i + 1
                     \/ pc = "returned" /\ i = Len(plan)
            /\ k < Len(calls) =>
                  /\ calls[k + 1].step = i + 1
                  /\ calls[k + 1].call = "has_prompts"

\* C2 witness: a step was skipped and the plan went on to the next step, which ran.
C2_Witness ==
    \E k \in Calls :
        /\ IsCall(k, "is_skip", "SKIPPED")
        /\ \E j \in Calls : j > k /\ calls[j].call = "run" /\ calls[j].step = calls[k].step + 1

\* C3: the calls run_plan makes follow the list: the first call is on step 1,
\* each step gets has_prompts, then prompt (if any), then is_skip, then run (if
\* any), each at most once, the first call on step i+1 directly follows a
\* returned Result of step i (its skip, or its run), and the loop stands at the
\* step of the last call.
C3_ListOrder ==
    /\ \A k \in Calls : calls[k].step \in 1..Len(plan)
    /\ Len(calls) > 0 => calls[1].step = 1 /\ calls[1].call = "has_prompts"
    /\ \A k \in Calls : k < Len(calls) =>
          LET a == calls[k]
              b == calls[k + 1]
          IN
          \/ /\ b.step = a.step
             /\ <<a.call, b.call>> \in
                   {<<"has_prompts", "prompt">>, <<"has_prompts", "is_skip">>,
                    <<"prompt", "is_skip">>, <<"is_skip", "run">>}
          \/ /\ b.step = a.step + 1
             /\ b.call = "has_prompts"
             /\ \/ a.call = "is_skip" /\ a.ret = "SKIPPED"
                \/ a.call = "run" /\ a.ret \in {"COMPLETED", "SKIPPED"}
    /\ LET reached == IF pc = "has_prompts" THEN idx - 1 ELSE idx IN
       IF Len(calls) > 0 THEN calls[Len(calls)].step = reached ELSE reached = 0

\* C3 witness: a plan of three steps ran to its end, the last step having run.
C3_Witness ==
    /\ pc = "returned"
    /\ Len(plan) = 3
    /\ \E k \in Calls : calls[k].step = 3 /\ calls[k].call = "run"
    /\ \E k \in Calls : calls[k].step = 2 /\ calls[k].call = "prompt"

C4_WitnessRaise ==
    /\ ~no_raise
    /\ \E k \in Calls : IsCall(k, "is_skip", "FAILED") /\ calls[k].step = 2
    /\ pc = "raised"

\* The call that returned the Result of step j (a step the plan went past).
ResultCallOf(j) == CHOOSE k \in Calls : calls[k].step = j /\ Recorded(k)

\* Some entry of the results is step j's Result.
ResultsHoldStep(j) == \E t \in DOMAIN results : results[t] = ResultOfCall(ResultCallOf(j))

RECURSIVE LastRecordedFor(_, _)
LastRecordedFor(t, k) ==
    IF k = 0 THEN 0
    ELSE IF Recorded(k) /\ plan[calls[k].step] = t THEN k
    ELSE LastRecordedFor(t, k - 1)

\* C6: the results hold one entry per class name of a step that produced a
\* recorded Result, and it is the Result of the last such step; get_step_result
\* and get_step_message return that Result and its message.
C6_LastResultPerType ==
    \A t \in StepNames :
        LET last == LastRecordedFor(t, Len(calls)) IN
        IF last = 0
        THEN t \notin DOMAIN results
        ELSE /\ t \in DOMAIN results
             /\ results[t] = ResultOfCall(last)
             /\ get_step_result(results, t) = ResultOfCall(last)
             /\ get_step_message(results, t) = Message(calls[last].step, calls[last].call)

\* C6 witness: run_plan returned after two steps of one class both produced a
\* Result, the first one by running and the second by being skipped.
C6_Witness ==
    /\ pc = "returned"
    /\ Len(plan) = 2
    /\ plan[1] = plan[2]
    /\ \E k \in Calls : IsCall(k, "run", "COMPLETED") /\ calls[k].step = 1
    /\ \E k \in Calls : IsCall(k, "is_skip", "SKIPPED") /\ calls[k].step = 2
    /\ Cardinality(DOMAIN results) = 1

\* has_prompts() of the step of call k returned True just before call k.
AfterHasPromptsTrue(k) ==
    /\ k > 1
    /\ IsCall(k - 1, "has_prompts", "True")
    /\ calls[k - 1].step = calls[k].step

\* Call k, a prompt, was made with the display stopped, before the step's
\* is_skip, and once it has returned the display runs again for is_skip.
PromptBracketed(k) ==
    /\ ~calls[k].live
    /\ \A j \in Calls : (j < k /\ calls[j].step = calls[k].step) => calls[j].call = "has_prompts"
    /\ calls[k].ret = "None" =>
          /\ k = Len(calls) => pc = "is_skip" /\ live
          /\ k < Len(calls) =>
                /\ calls[k + 1].call = "is_skip"
                /\ calls[k + 1].step = calls[k].step
                /\ calls[k + 1].live

\* C7 as stated, for a run that returned: prompt was called only if
\* has_prompts() returned True and the caller did not ask for the no-prompt
\* mode (run_plan's flag argument), with the display stopped before and
\* restarted after it, and before is_skip.
C7_Original ==
    pc = "returned" =>
        \A k \in Calls :
            calls[k].call = "prompt" =>
                /\ AfterHasPromptsTrue(k)
                /\ ~no_hint
                /\ PromptBracketed(k)

\* C7: prompt is called exactly when has_prompts() returned True, whatever
\* run_plan's flag argument, which is only handed to prompt; the display is
\* stopped before prompt and, when prompt returns, restarted after it, and prompt
\* comes before the step's is_skip.
C7_PromptIffHasPrompts ==
    /\ \A k \in Calls :
          calls[k].call = "prompt" =>
              /\ AfterHasPromptsTrue(k)
              /\ calls[k].arg = BoolStr(no_hint)
              /\ PromptBracketed(k)
    /\ \A k \in Calls :
          IsCall(k, "has_prompts", "True") =>
              /\ k = Len(calls) => pc = "prompt"
              /\ k < Len(calls) =>
                    /\ calls[k + 1].call = "prompt"
                    /\ calls[k + 1].step = calls[k].step
    /\ \A k \in Calls :
          IsCall(k, "has_prompts", "False") =>
              /\ k = Len(calls) => pc = "is_skip"
              /\ k < Len(calls) => calls[k + 1].call = "is_skip"

\* C7 witness: prompt was called and returned with the flag argument set, and
\* is_skip followed.
C7_Witness ==
    /\ no_hint
    /\ \E k \in Calls :
          /\ IsCall(k, "prompt", "None")
          /\ k < Len(calls)
          /\ calls[k + 1].call = "is_skip"

(***************************************************************************)
(* Properties of check_gated (SpecGate)                                    *)
(***************************************************************************)
\* A resolution has run.
Checked == lastCheck.ret # "-"

\* The resolved capability has a gate key (a backend_type or a name).
HasIdentity(cap) == gate_key(cap) # ValueError

\* The cluster database, as the resolution could read it, holds an enabled
\* record for the capability's gate key.
RecordEnabled(c) ==
    /\ c.client
    /\ c.env.fault # "get_feature_gate"
    /\ c.env.up
    /\ c.env.gates[gate_key(c.cap)] = "enabled"

\* The resolution had no gate record to read: no client, a cluster that does not
\* answer, or no record.
RecordAbsentOrUnreachable(c) ==
    \/ ~c.client
    \/ c.env.fault = "get_feature_gate"
    \/ ~c.env.up
    \/ c.env.gates[gate_key(c.cap)] = "absent"

\* The resolution found the capability in an enabled list.
InEnabledList(c) ==
    /\ c.client
    /\ c.enabled_config_key # "None"
    /\ c.env.fault # "get_config"
    /\ c.env.up
    /\ c.env.list.found
    /\ c.env.list.json
    /\ InList(ListIdentifier(c.cap), c.env.list.items)

\* The enabled-list lookup and the local lookup answer: each returns a value or
\* raises the exception check_gated handles for it.
ListAndLocalAnswer(c) ==
    /\ c.env.fault \in {"None", "get_feature_gate"}
    /\ c.env.list # NotJSON

\* The local snap configuration holds a truthy value for the gate key.
LocalTruthy(c) ==
    /\ c.env.snap[gate_key(c.cap)] # Unset
    /\ c.env.snap[gate_key(c.cap)] \in {"true", "string"}

\* C8: for a capability that is not generally available, resolved with a
\* cluster client while the cluster database holds an enabled record for its
\* gate key, check_gated returns False (not gated), whatever the local snap
\* configuration and the enabled list hold.
C8_ClusterRecordEnables ==
    (/\ Checked
     /\ ~lastCheck.cap.generally_available
     /\ HasIdentity(lastCheck.cap)
     /\ RecordEnabled(lastCheck))
        => lastCheck.ret = "False"

\* C8 witness: an enabled record decided a resolution whose local value is
\* false and whose enabled list does not exist.
C8_Witness ==
    /\ Checked
    /\ ~lastCheck.cap.generally_available
    /\ HasIdentity(lastCheck.cap)
    /\ RecordEnabled(lastCheck)
    /\ lastCheck.env.snap[gate_key(lastCheck.cap)] = "false"
    /\ ~lastCheck.env.list.found
    /\ lastCheck.ret = "False"

C9_WitnessEnabled ==
    /\ Checked
    /\ lastCheck.env.fault = "None"
    /\ ~lastCheck.cap.generally_available
    /\ HasIdentity(lastCheck.cap)
    /\ lastCheck.client
    /\ ~lastCheck.env.up
    /\ lastCheck.env.snap[gate_key(lastCheck.cap)] = "true"
    /\ lastCheck.ret = "False"

\* C10: for a generally available capability check_gated returns False (not
\* gated) and calls none of the sources: no gate lookup, no cluster config
\* lookup, no snap configuration lookup, no Snap() construction.
C10_GenerallyAvailableSkipsSources ==
    (Checked /\ lastCheck.cap.generally_available)
        => /\ lastCheck.ret = "False"
           /\ lastCheck.calls = <<>>

\* C10 witness: a generally available capability was resolved with a client and
\* an enabled-list key while every source says disabled.
C10_Witness ==
    /\ Checked
    /\ lastCheck.cap.generally_available
    /\ HasIdentity(lastCheck.cap)
    /\ lastCheck.client
    /\ lastCheck.enabled_config_key # "None"
    /\ lastCheck.env.up
    /\ lastCheck.env.gates[gate_key(lastCheck.cap)] = "disabled"
    /\ lastCheck.env.snap[gate_key(lastCheck.cap)] = "false"
    /\ lastCheck.ret = "False"

\* The cluster database, as the resolution could read it, holds a record for the
\* capability's gate key that says disabled.
RecordDisabled(c) ==
    /\ c.client
    /\ c.env.fault # "get_feature_gate"
    /\ c.env.up
    /\ c.env.gates[gate_key(c.cap)] = "disabled"

C37_WitnessList ==
    /\ Checked
    /\ ~lastCheck.cap.generally_available
    /\ HasIdentity(lastCheck.cap)
    /\ RecordDisabled(lastCheck)
    /\ InEnabledList(lastCheck)
    /\ lastCheck.env.snap[gate_key(lastCheck.cap)] = "false"
    /\ lastCheck.ret = "False"

\* C11: for a capability that has an identity, a source that cannot be read (its
\* lookup raises any exception, or the key is missing) has no opinion: check_gated
\* never raises, it returns a decision.
C11_SourceFailureNeverRaises ==
    (Checked /\ HasIdentity(lastCheck.cap)) => lastCheck.ret \in {"True", "False"}

\* The enabled-list lookup of the resolution raised an exception check_gated
\* does not handle.
ListLookupRaised(c) ==
    /\ c.client
    /\ c.enabled_config_key # "None"
    /\ c.env.fault = "get_config"

C12_EntryPointsAgree ==
    (/\ Checked
     /\ lastGate # NoGate
     /\ lastCheck.client
     /\ ~lastCheck.cap.generally_available
     /\ HasIdentity(lastCheck.cap)
     /\ gate_key(lastCheck.cap) = lastGate.key)
        => (lastCheck.ret = "False" <=> lastGate.ret = "True")

(***************************************************************************)
(* Properties of storage backends (SpecStorage)                            *)
(***************************************************************************)
\* check_enabled has run.
EnabledChecked == lastEnabled.ret # "-"

\* The cluster answers the lookup of the enabled backends with a JSON list.
ListReadable(env) ==
    /\ env.up
    /\ env.fault # "get_config"
    /\ env.list.found
    /\ env.list.json

\* C13: for a storage backend that is not generally available, resolved with a
\* cluster client that answers, if its backend_type is in the JSON list stored
\* under StorageBackendsEnabled then check_enabled returns True, whatever the
\* gate record and the snap configuration hold (or raise); and check_enabled
\* called with a client after enable_backend of that backend_type has returned
\* on the same cluster returns True.
C13_EnabledListEnables ==
    /\ (/\ EnabledChecked
        /\ ~lastEnabled.cap.generally_available
        /\ lastEnabled.client
        /\ ListReadable(lastEnabled.env)
        /\ InList(lastEnabled.cap.backend_type, lastEnabled.env.list.items))
           => lastEnabled.ret = "True"
    /\ (/\ EnabledChecked
        /\ lastEnabled.client
        /\ lastEnabled.after.ret = "None"
        /\ lastEnabled.after.backend = lastEnabled.cap.backend_type)
           => lastEnabled.ret = "True"

\* C13 witness: enable_backend found no config item and created it, and
\* check_enabled then returned True for a backend that is not generally
\* available, has a disabled gate record and a false local value.
C13_Witness ==
    /\ EnabledChecked
    /\ ~lastEnabled.cap.generally_available
    /\ lastEnabled.client
    /\ lastEnabled.after.ret = "None"
    /\ lastEnabled.after.backend = lastEnabled.cap.backend_type
    /\ lastEnabled.env.list = JsonDumps(<<lastEnabled.cap.backend_type>>)
    /\ lastEnabled.env.gates[gate_key(lastEnabled.cap)] = "disabled"
    /\ lastEnabled.env.snap[gate_key(lastEnabled.cap)] = "false"
    /\ lastEnabled.ret = "True"

(***************************************************************************)
(* Properties of role parsing (SpecRole)                                   *)
(***************************************************************************)
\* The names the option values spell, in upper case.
NamedRoles == {Upper(str) : str \in RoleStringSet(rvalue)}

\* The gate of feature.multi-region is enabled in the local snap configuration.
MultiRegionEnabled == rsnap = "true"

\* The command got past its role checks.
RolesAccepted == rpc \in {"accepted", "steps", "preflight_failed"}

\* The callback and the role checks of the command are over.
RoleChecksDone == rpc \notin {"callback", "validated"}

\* C14: roles naming both compute and network are rejected, roles naming
\* region_controller with any other role are rejected, in both cases before
\* any step is constructed, and region_controller alone (its gate enabled) gets
\* past the role checks of bootstrap and join.
C14_RoleMutualExclusion ==
    /\ {"COMPUTE", "NETWORK"} \subseteq NamedRoles => ~RolesAccepted
    /\ ("REGION_CONTROLLER" \in NamedRoles /\ NamedRoles # {"REGION_CONTROLLER"})
          => ~RolesAccepted
    /\ (NamedRoles = {"REGION_CONTROLLER"} /\ MultiRegionEnabled /\ RoleChecksDone)
          => RolesAccepted

\* C15: when every name is a valid, enabled role, the list validate_roles
\* returns holds each named role once and no other role; an unknown name ends
\* the callback in BadParameter.
C15_RolesOnceEach ==
    /\ (rpc = "validated") =>
          \A r \in Role : rroles[r] = IF r \in NamedRoles THEN 1 ELSE 0
    /\ (rpc # "callback" /\ ~(NamedRoles \subseteq Role)) =>
          /\ rpc = "bad_parameter"
          /\ rerr.kind = "BadParameter"

\* C16: a value naming region_controller while feature.multi-region is not
\* enabled ends the callback in BadParameter, before the command body and any
\* step; the error names the gate unless an unknown name was met first. Names
\* of roles without a gate are accepted whatever the gate value, and
\* region_controller is accepted when the gate is enabled.
C16_GatedRoleRejectedAtParse ==
    /\ ("REGION_CONTROLLER" \in NamedRoles /\ ~MultiRegionEnabled) =>
          /\ rpc \in {"callback", "bad_parameter"}
          /\ rpc = "bad_parameter" =>
                /\ rerr.kind = "BadParameter"
                /\ \/ rerr.why = "feature.multi-region" /\ Upper(rerr.role) = "REGION_CONTROLLER"
                   \/ rerr.why = "KeyError" /\ Upper(rerr.role) \notin Role
          /\ (rpc = "bad_parameter" /\ NamedRoles \subseteq Role) =>
                rerr.why = "feature.multi-region"
    /\ (NamedRoles \subseteq Role \ DOMAIN ROLE_GATES) => rpc # "bad_parameter"
    /\ (NamedRoles \subseteq Role /\ MultiRegionEnabled) => rpc # "bad_parameter"

\* C16 witness: region_controller was named next to a role without a gate while
\* the gate value is false, and the callback raised BadParameter naming the gate.
C16_Witness ==
    /\ NamedRoles = {"REGION_CONTROLLER", "STORAGE"}
    /\ rsnap = "false"
    /\ rpc = "bad_parameter"
    /\ rerr.why = "feature.multi-region"

\* C16 witness, the enabled case: the gate is enabled and region_controller
\* alone reached the construction of the steps.
C16_WitnessEnabled ==
    /\ NamedRoles = {"REGION_CONTROLLER"}
    /\ MultiRegionEnabled
    /\ rpc = "steps"

C17_WitnessMissing ==
    /\ kcap.backend_type = NoAttr
    /\ kcap.name = NoAttr
    /\ krequests = 1
    /\ kret = ValueError

(***************************************************************************)
(* Claims about the retrying run                                           *)
(***************************************************************************)
\* The call has ended: it returned a Result or raised.
RunEnded == tpc \in {"done", "raised"}

\* The adapter raised the lock error at every attempt.
AlwaysLocked ==
    /\ tattempts # <<>>
    /\ \A k \in DOMAIN tattempts : tattempts[k].apply = "TerraformStateLockedException"

\* Each attempt but the first started the fixed wait after the one before ended.
FixedInterval ==
    \A k \in DOMAIN tattempts :
        k > 1 => tattempts[k].start = tattempts[k - 1].end + WaitFixed

\* The attempts went on until the budget was used up, and no further.
BudgetExhausted ==
    /\ tattempts # <<>>
    /\ tattempts[Len(tattempts)].end >= StopAfterDelay
    /\ \A k \in DOMAIN tattempts : k < Len(tattempts) => tattempts[k].end < StopAfterDelay

\* The message names the lock ID when the text of the error holds one, and the
\* command that clears a stale lock.
Actionable(msg) ==
    /\ msg.command = "sunbeam plans unlock <plan>"
    /\ tlockId # "none" => msg.lock_id = tlockId

\* C19: when the adapter raises the lock error at every attempt, run is attempted
\* again 60 s after each failed attempt until 300 s have elapsed, then returns a
\* FAILED Result whose message names the lock ID (when the error text holds one)
\* and the command that clears a stale lock, and nothing is raised to the caller.
C19_RetryThenFail ==
    (RunEnded /\ AlwaysLocked) =>
        /\ tpc = "done"
        /\ tresult.raised = "None"
        /\ tresult.result.result_type = "FAILED"
        /\ FixedInterval
        /\ BudgetExhausted
        /\ Actionable(tresult.result.message)

\* The first attempt failed with a Terraform error other than the lock error, or
\* its readiness wait timed out.
FirstAttemptFailedUnlocked ==
    /\ tattempts # <<>>
    /\ \/ tattempts[1].apply = "TerraformException"
       \/ tattempts[1].apply = "ok" /\ tattempts[1].wait = "TimeoutError"

\* The class of the error the first attempt ended with.
FirstError ==
    IF tattempts[1].apply = "ok" THEN tattempts[1].wait ELSE tattempts[1].apply

\* C20: only the lock error is retried: when apply fails with another Terraform
\* error, or the readiness wait times out, there is exactly one attempt, which
\* returns FAILED with the message of that error, and no wait for a retry; every
\* attempt after the first follows one at which apply raised the lock error.
C20_RetryOnlyOnLocked ==
    /\ FirstAttemptFailedUnlocked =>
           /\ Len(tattempts) = 1
           /\ tpc = "done"
           /\ tresult = Returned("FAILED", StrOf(FirstError, tlockId))
    /\ \A k \in DOMAIN tattempts :
           k > 1 => tattempts[k - 1].apply = "TerraformStateLockedException"

\* A Terraform error other than the lock error ended the call at its first attempt.
C20_Witness ==
    /\ tpc = "done"
    /\ Len(tattempts) = 1
    /\ tattempts[1].apply = "TerraformException"
    /\ tresult.result.result_type = "FAILED"

\* A readiness timeout ended the call at its first attempt.
C20_WitnessTimeout ==
    /\ tpc = "done"
    /\ Len(tattempts) = 1
    /\ tattempts[1].wait = "TimeoutError"
    /\ tresult.result.result_type = "FAILED"

\* The lock error was retried: a second attempt took place.
C20_WitnessRetried == Len(tattempts) > 1

(***************************************************************************)
(* Claims about the background status worker                               *)
(***************************************************************************)
\* The applications whose counter has reached ActiveCount.
ActiveApps == {app \in DOMAIN ucount : ucount[app] >= ActiveCount}

\* The last ActiveCount reports of the application were all ready.
LastReportsReady(app) ==
    /\ Len(urecent[app]) = ActiveCount
    /\ \A i \in DOMAIN urecent[app] : urecent[app][i] = STATUS_READY

\* C21: an application is active exactly when its last 4 reports were all ready,
\* and a report that is not ready puts its counter back to 0; after ready, ready,
\* ready, not-ready, ready, ready, ready, ready of one application it is active
\* after the 8th report and not before; the displayed N is the number of
\* applications whose counter is at least 4 and is at most M.
C21_Debounce ==
    ustatus =>
        /\ \A app \in DOMAIN ucount :
              /\ (app \in ActiveApps) <=> LastReportsReady(app)
              /\ (urecent[app] # <<>> /\ urecent[app][Len(urecent[app])] # STATUS_READY)
                     => ucount[app] = 0
        /\ (upat >= 1 /\ upat < Len(Flapping)) => "a" \notin ActiveApps
        /\ upat = Len(Flapping) => "a" \in ActiveApps
        /\ udisplay.kind = "progress" =>
              /\ udisplay.n = Cardinality(ActiveApps)
              /\ udisplay.m = Len(uapps)
              /\ udisplay.n <= udisplay.m

\* The worker has counted the eight reports of Flapping.
C21_Witness ==
    /\ ustatus
    /\ upat = Len(Flapping)
    /\ udisplay.kind = "progress"
    /\ udisplay.n >= 1

\* C22: once stop() has been signalled the worker writes nothing more to the
\* status display, neither a progress update nor 'all services are online'.
C22_NoWriteAfterStop == ~uafter

\* C23: without a status display the producer never finds the queue full: every
\* event it emits is enqueued.
C23_ProducerNeverBlocked == ~ustatus => uprod # "full"

(***************************************************************************)
(* Claims about the sync of the feature gates                              *)
(***************************************************************************)
\* The local settings as (gate key, value) pairs, a gate key being the
\* sequence of the segments of the dotted key under 'feature'.
LocalLeaves ==
    (IF "a" \in DOMAIN slocal
     THEN {<<<<"feature", "a">>, slocal["a"].value>>}
     ELSE {})
    \cup (IF "storage" \in DOMAIN slocal /\ "b" \in DOMAIN slocal["storage"].children
          THEN {<<<<"feature", "storage", "b">>, slocal["storage"].children["b"].value>>}
          ELSE {})

\* The boolean value of a setting.
SettingIsTrue(value) == value \in {"True", "'off'"}

\* The calls of the last run for a gate key.
CallsFor(gk) == IF gk \in DOMAIN slast.calls THEN slast.calls[gk] ELSE <<>>

\* The last run called op for the gate key.
Called(gk, op) == \E i \in DOMAIN CallsFor(gk) : CallsFor(gk)[i].op = op

\* A run of the sync has just ended and reached the cluster client.
SyncRan == slast.ran

\* C24: a run that follows a run in which every call was answered, with no
\* change of the local settings in between, calls neither add_feature_gate nor
\* update_feature_gate.
C24_SyncIdempotent ==
    (SyncRan /\ slast.second) =>
        \A gk \in DOMAIN slast.calls :
            ~Called(gk, "add_feature_gate") /\ ~Called(gk, "update_feature_gate")

\* C25: after a run in which the cluster answered every call, every local leaf
\* key has a record whose enabled field is the boolean value of the setting: a
\* record with another value was updated, a missing one created, one with the
\* same value not written; records of other keys are as they were.
C25_SyncedAfterRun ==
    (SyncRan /\ slast.fault = NoSyncFault) =>
        /\ \A kv \in LocalLeaves :
              LET gk == kv[1]
                  want == RecordOf(SettingIsTrue(kv[2]))
              IN
              /\ sdb[gk] = want
              /\ slast.before[gk] = "absent" =>
                     CallsFor(gk) = <<SyncCall("get_feature_gate", FALSE),
                                      SyncCall("add_feature_gate", TRUE)>>
              /\ slast.before[gk] \notin {"absent", want} =>
                     CallsFor(gk) = <<SyncCall("get_feature_gate", TRUE),
                                      SyncCall("update_feature_gate", TRUE)>>
              /\ slast.before[gk] = want =>
                     CallsFor(gk) = <<SyncCall("get_feature_gate", TRUE)>>
        /\ \A gk \in SyncKeys :
              gk \notin {kv[1] : kv \in LocalLeaves} =>
                  sdb[gk] = slast.before[gk] /\ CallsFor(gk) = <<>>

\* A run updated one record and created another.
C25_Witness ==
    /\ SyncRan
    /\ slast.fault = NoSyncFault
    /\ \E gk \in DOMAIN slast.calls : Called(gk, "update_feature_gate")
    /\ \E gk \in DOMAIN slast.calls : Called(gk, "add_feature_gate")

\* A run found a record that already held the value and did not write it.
C25_WitnessSame ==
    /\ SyncRan
    /\ slast.fault = NoSyncFault
    /\ \E kv \in LocalLeaves :
          /\ slast.before[kv[1]] = RecordOf(SettingIsTrue(kv[2]))
          /\ kv[2] = "'off'"

\* C26: add_feature_gate is called only for a gate key that had no record; for a
\* key whose record exists at most update_feature_gate is called.
C26_CreateOnlyIfAbsent ==
    SyncRan =>
        \A gk \in DOMAIN slast.calls :
            Called(gk, "add_feature_gate") => slast.before[gk] = "absent"

\* None of the calls for the gate key raised for a reason of the run.
OwnCallsSucceed(gk) ==
    \A op \in {"get_feature_gate", "update_feature_gate", "add_feature_gate"} :
        ~SyncFails(slast.fault, gk, op)

\* C27: in a run that read the local settings, every local leaf key is
\* attempted whatever happens to the others; a key whose own calls succeed ends
\* up synced, and a key that a raising call left unsynced has a warning logged.
C27_PerKeyIsolation ==
    (SyncRan /\ slast.fault.op # "get_options") =>
        \A kv \in LocalLeaves :
            LET gk == kv[1]
                want == RecordOf(SettingIsTrue(kv[2]))
            IN
            /\ CallsFor(gk) # <<>>
            /\ CallsFor(gk)[1].op = "get_feature_gate"
            /\ OwnCallsSucceed(gk) => (sdb[gk] = want /\ gk \notin slast.warned)
            /\ sdb[gk] # want => gk \in slast.warned

\* The sync of one key failed and was logged, and another key was written in
\* the same run.
C27_Witness ==
    /\ SyncRan
    /\ slast.fault.reach
    /\ slast.warned # {}
    /\ \E gk \in DOMAIN slast.calls :
          /\ gk \notin slast.warned
          /\ \E i \in DOMAIN CallsFor(gk) :
                CallsFor(gk)[i].op # "get_feature_gate" /\ CallsFor(gk)[i].ok

\* C28: with the cluster unreachable the sync returns without raising and
\* without a successful write, the configure hook carries on and the step
\* returns COMPLETED; the hook also carries on when it cannot make the client.
C28_UnreachableIsSkipped ==
    /\ (SyncRan /\ ~slast.fault.reach) =>
          /\ ~slast.raised
          /\ sdb = slast.before
          /\ \A gk \in DOMAIN slast.calls :
                \A i \in DOMAIN CallsFor(gk) : ~CallsFor(gk)[i].ok
          /\ slast.entry = "step" => slast.result = "COMPLETED"
          /\ slast.entry = "hook" => slast.carried_on
    /\ (slast.entry = "hook" /\ ~slast.ran) => (slast.carried_on /\ sdb = slast.before)

\* The step ran with local settings and an unreachable cluster.
C28_Witness ==
    /\ SyncRan
    /\ ~slast.fault.reach
    /\ slast.entry = "step"
    /\ slast.calls # NoCalls
    /\ slast.result = "COMPLETED"

\* The configure hook ran the sync with local settings and an unreachable cluster.
C28_WitnessHook ==
    /\ SyncRan
    /\ ~slast.fault.reach
    /\ slast.entry = "hook"
    /\ slast.calls # NoCalls
    /\ slast.carried_on

\* C29: a run of the sync leaves the local settings as they were, whatever the
\* cluster records hold.
C29_LocalUnchanged ==
    slast.entry # "none" => slocal = slast.local_before

\* A run found a record whose value differs from the local setting.
C29_Witness ==
    /\ SyncRan
    /\ slast.fault = NoSyncFault
    /\ "a" \in DOMAIN slocal
    /\ slast.before[<<"feature", "a">>] \notin
           {"absent", RecordOf(SettingIsTrue(slocal["a"].value))}
    /\ slocal = slast.local_before

(***************************************************************************)
(* Claims about SetOvnProviderStep                                         *)
(***************************************************************************)
\* is_skip found a bootstrapped cluster and a requested provider that differs
\* from the configured one.
OvnConflict ==
    /\ oskip.called
    /\ oskip.bootstrapped
    /\ oskip.snap_value # ValueError
    /\ oskip.snap_value # oskip.configured

\* C30: once the cluster is bootstrapped the stored provider stays what it was;
\* when the provider requested through the snap differs from the configured one,
\* is_skip returns FAILED with 'Changing OVN provider is not supported.', run is
\* not executed and the stored provider is neither side's choice but unchanged.
C30_NoProviderChangeAfterBootstrap ==
    /\ oboot => oprovider = oatboot
    /\ OvnConflict =>
          /\ oskip.ret = "FAILED"
          /\ oskip.message = OvnMessage("Changing OVN provider is not supported.")
          /\ opc = "done"
          /\ oran = "-"
          /\ oprovider = oskip.configured

\* On a bootstrapped cluster configured for ovn-k8s the snap asked for microovn.
C30_Witness ==
    /\ OvnConflict
    /\ oskip.configured = "ovn-k8s"
    /\ oskip.snap_value = "microovn"
    /\ opc = "done"

\* Before the bootstrap the step did change the provider.
C30_WitnessBeforeBootstrap ==
    /\ oskip.called
    /\ ~oskip.bootstrapped
    /\ oran = "COMPLETED"
    /\ oprovider # oskip.configured

\* The snap holds feature.microovn-sdn with a true value.
OvnGateEnabled == ogate = "true"

\* The snap holds a value for ovn.provider that is not a provider.
OvnInvalidValue == osnap \notin OvnProvider \cup {Unset, ""}

\* The provider selection of get_config_from_snap as C31 states it for the cases
\* that do not involve a value that is no provider.
OvnSelection ==
    /\ oskip.snap_value = "microovn" => (OvnGateEnabled /\ osnap = "microovn")
    /\ (~OvnGateEnabled \/ osnap \in {Unset, ""}) => oskip.snap_value = DEFAULT_PROVIDER

\* The explicit failure of is_skip on a resolution error.
OvnExplicitFailure ==
    /\ oskip.snap_value = ValueError
    /\ oskip.ret = "FAILED"
    /\ oskip.message = OvnMessage("Invalid value")
    /\ opc = "done"
    /\ oran = "-"

\* C31 as stated: MICROOVN is selected only with the gate enabled and the value
\* 'microovn'; the gate disabled, the key absent or the value empty select the
\* default; and whenever the configured value is not a valid provider is_skip
\* fails explicitly.
C31_InvalidAlwaysFails ==
    oskip.called =>
        /\ OvnSelection
        /\ OvnInvalidValue => OvnExplicitFailure

\* C31 (amended): MICROOVN is selected only with the gate enabled and the value
\* 'microovn'; the gate disabled, the key absent or the value empty select the
\* default; with the gate enabled a configured value that is not a valid
\* provider makes get_config_from_snap raise ValueError and is_skip return
\* FAILED without running the step; with the gate disabled the value is not
\* read.
C31_ProviderSelection ==
    oskip.called =>
        /\ OvnSelection
        /\ (OvnGateEnabled /\ OvnInvalidValue) => OvnExplicitFailure

\* With the gate enabled is_skip met a value that is no provider.
C31_Witness ==
    /\ oskip.called
    /\ OvnGateEnabled
    /\ OvnInvalidValue
    /\ oskip.ret = "FAILED"

\* With the gate enabled and 'microovn' configured MICROOVN was selected.
C31_WitnessMicroovn ==
    /\ oskip.called
    /\ oskip.snap_value = "microovn"

\* C38: on a bootstrapped cluster is_skip returns FAILED for a valid requested
\* provider only if it differs from the effective provider of the cluster, which
\* is the stored provider or, when none is stored, the default that
\* OvnManager.get_provider reports.
C38_FailsOnlyOnEffectiveChange ==
    (/\ oskip.called
     /\ oskip.bootstrapped
     /\ oskip.snap_value # ValueError
     /\ oskip.ret = "FAILED")
        => oskip.snap_value # get_provider(oskip.configured)

(***************************************************************************)
(* Claims about capability discovery                                       *)
(***************************************************************************)
\* C32: over any sequence of manager constructions and get_backend /
\* register_cli_commands calls the directory is scanned at most once for
\* storage backends and at most once for features, and the instance cached for
\* an identifier is the first one that was cached for it.
C32_DiscoveredOnce ==
    /\ dscans <= 1
    /\ fscans <= 1
    /\ \A b \in BackendDirs : dbackends[b] = dfirst[b]
    /\ \A f \in FeatureClasses : ffeatures[f] = ffirst[f]

(***************************************************************************)
(* Claims about the registration of capabilities                           *)
(***************************************************************************)
\* The rank of a risk level: stable < candidate < beta < edge.
RiskRank(level) ==
    IF level = "candidate" THEN 1
    ELSE IF level = "beta" THEN 2
    ELSE IF level = "edge" THEN 3
    ELSE 0

\* The risk filter: the capability's minimum risk level is at most the risk
\* level of the installation, a missing or unrecognised one being stable. A
\* storage backend declares no minimum risk level.
PassesRiskFilter ==
    regLast.kind = "feature" => RiskRank(regLast.risk) <= RiskRank(regLast.snap_risk)

C33_WitnessGated ==
    /\ regLast.called
    /\ regLast.kind = "feature"
    /\ regLast.gate = "True"
    /\ regLast.outcome = "omitted"

\* A capability passed both filters and was attached.
C33_WitnessAttached ==
    /\ regLast.called
    /\ regLast.outcome = "attached"
    /\ regLast.risk = "edge"

\* C34: when the cluster client cannot be obtained (and the snap lookup and the
\* capability's own registration do not fail), registration does not raise, the
\* gate check runs with client=None, and a feature that is not gated is
\* registered with enabled=False.
C34_MissingClientDegrades ==
    (/\ regLast.called
     /\ regLast.get_client \notin {"-", "client"}
     /\ regEnv.fault # "snap.config.get"
     /\ regLast.attach \in {"-", "attached"})
        => /\ regLast.outcome \in {"attached", "omitted"}
           /\ regLast.gate_client = "None"
           /\ (regLast.kind = "feature" /\ regLast.gate = "False")
                 => regLast.enabled = "False"

(***************************************************************************)
(* Claims about update_features                                            *)
(***************************************************************************)
\* update_features called the upgrade hook of feature n.
HookCalled(n) == \E k \in 1..Len(vcalls) : vcalls[k].feature = n

\* C35: update_features calls a feature's upgrade hook only if the feature is
\* enabled and its version differs from the persisted one (a missing persisted
\* version counting as 0.0.0).
C35_UpgradeOnlyOnVersionChange ==
    vdone => \A n \in UpdateNames :
        HookCalled(n) =>
            /\ vfeatures[n].enabled
            /\ has_feature_version_changed(vfeatures[n])

(***************************************************************************)
(* Claims about enable_backend                                             *)
(***************************************************************************)
\* No element occurs twice in the list.
NoDuplicates(list) ==
    \A i, j \in 1..Len(list) : list[i] = list[j] => i = j

\* The list an item stands for, a missing item counting as the empty list.
ItemsOf(item) == IF item.found THEN item.items ELSE <<>>

\* C36: a call of enable_backend that returns appended the backend type to the
\* end of the list, and wrote it, exactly if the type was absent (a missing item
\* counting as the empty list); when the type was listed it wrote nothing and
\* left the item as it was; and the list never holds a type twice.
C36_EnableIdempotent ==
    /\ (elist.found /\ elist.json) => NoDuplicates(elist.items)
    /\ \A k \in 1..Len(ecalls) :
        LET c == ecalls[k] IN
        IF c.ret # "None" THEN ~c.wrote /\ c.after = c.before
        ELSE IF InList(c.backend, ItemsOf(c.before))
        THEN ~c.wrote /\ c.after = c.before
        ELSE c.wrote /\ c.after = JsonDumps(Append(ItemsOf(c.before), c.backend))

\* A backend was enabled after another one, and enabling it again wrote nothing.
C36_Witness ==
    /\ Len(ecalls) = 3
    /\ ecalls[1].backend = "lvm" /\ ecalls[1].wrote
    /\ ecalls[2].backend = "ceph" /\ ecalls[2].wrote
    /\ ecalls[3].backend = "ceph" /\ ~ecalls[3].wrote /\ ecalls[3].ret = "None"
    /\ elist = JsonDumps(<<"lvm", "ceph">>)

\* The first call found the item missing.
C36_WitnessMissing ==
    /\ Len(ecalls) >= 1
    /\ ecalls[1].before = NotFound
    /\ ecalls[1].after = JsonDumps(<<ecalls[1].backend>>)

\* C40: when two concurrent invocations of enable_backend for different backend
\* types have both completed, the list holds both backend types.
C40_BothTakeEffect ==
    (\A p \in EnableProcs : epc[p] = "done")
        => \A p \in EnableProcs : InList(EnableTypeOf(p), ItemsOf(elist))

(***************************************************************************)
(* Claims about the termination of the status worker                       *)
(***************************************************************************)
\* Every application has reached ActiveCount consecutive ready reports.
AllActive == \A app \in AppsOf(uapps) : ucount[app] >= ActiveCount

\* The worker takes the report of an application it does not know.
TakesUnknown ==
    /\ utaken' = utaken + 1
    /\ Head(uqueue)[2] \notin AppsOf(uapps)

\* C39: once stop() is signalled the worker eventually exits, whatever the
\* producer does; once every application has reached ActiveCount consecutive
\* ready reports it exits having written 'all services are online'; every event
\* it takes from the queue is acknowledged with task_done exactly once; and the
\* report of an unknown application changes no counter.
C39_WorkerTerminates ==
    /\ ustop ~> (upc = "done")
    /\ (ustatus /\ AllActive) ~> (upc = "done" /\ udisplay = AllOnline)
    /\ [](uacked = utaken)
    /\ [][TakesUnknown => UNCHANGED <<ucount, unb>>]_vars

\* The worker was stopped while reports were still due, and has exited.
C39_Witness ==
    /\ ustatus
    /\ ustop
    /\ upc = "done"
    /\ ~AllActive
    /\ utaken >= 1
    /\ uacked = utaken

\* The worker took one report, of an unknown application, and acknowledged it.
C39_WitnessUnknown ==
    /\ ustatus
    /\ utaken = 1
    /\ uacked = 1
    /\ \A app \in AppsOf(uapps) : urecent[app] = <<>>

\* Every application became active and the worker exited on its own.
C39_WitnessOnline ==
    /\ ~ustop
    /\ AllActive
    /\ upc = "done"
    /\ udisplay = AllOnline

=============================================================================
